---------------------------- MODULE Spec2Model ----------------------------
(***************************************************************************)
(* A model of the server manager of palworld_admin                         *)
(* (src/palworld_admin/servermanager/__init__.py): the backup manager      *)
(* (backup_server), the settings merger (update_palworld_settings_ini)     *)
(* and the process lifecycle (identify_process_by_name, run_server,        *)
(* check_server_running, get_cpu_time_by_pid, terminate_process_by_pid).   *)
(*                                                                         *)
(* Text is modelled as a sequence of one-character strings, so that        *)
(* searching, splitting, quoting and lexicographic sorting are computed    *)
(* character by character, as the Python code computes them.               *)
(***************************************************************************)
EXTENDS Integers, Sequences, FiniteSets, TLC

VARIABLES
    \* ---- the backup root (the file system under backup_path) ----
    backup_path_exists, \* os.path.exists(backup_path)
    backup_dirs,        \* names of the directories directly under backup_path
    backup_saved,       \* the names among them that hold a "Saved" subfolder
    backup_files,       \* names of plain files directly under backup_path
    now,                \* the wall clock read by time.strftime, in seconds
    backup_calls,       \* number of backup_server calls made so far
    backup_last,        \* what the last backup_server call did and returned
    \* ---- the settings file and the caller's update dict ----
    ini_file,           \* the lines of the file at ini_path, line ends kept
    ini_original,       \* the file as it was before the first call
    written_settings,   \* the entries the last call wrote to the directive line
    settings_to_change, \* the caller's dict, a list of <<key, value>> pairs
    public_ip,          \* what get_public_ip returns (<<>>: nothing)
    merge_calls,        \* number of update_palworld_settings_ini calls so far
    merge_result,       \* what the last call returned
    \* ---- the handle app_settings.localserver and app_settings.app_os ----
    app_os,             \* "Windows" or "Linux"
    pid,                \* the pid of the located server process, or None
    running,            \* the running flag
    expected_to_be_running,
    last_cpu_check,     \* the CPU baseline: when the last sample was taken
    last_cpu_time,      \* ... and the CPU time read then, in jiffies
    server_process,     \* the Popen object: the pid it launched, or None
    bot_options,        \* the options run_server stores before the launch
    launch_options,     \* the options run_server stores once confirmed
    db_launcher_options,\* launcher_options saved by save_user_settings_to_db
    use_get_counters,   \* query Get-Counter for the usage, not WMI
    \* ---- the operating system ----
    processes,          \* per pid: "none", "starting", "alive" or "gone"
    cpu_jiffies,        \* per pid: utime + stime of /proc/<pid>/stat
    cpu_clock,          \* datetime.now() as the CPU sampler reads it, seconds
    \* ---- the call in progress and its locals ----
    pc,                 \* "idle", "identify" (in the retry loop) or "check"
    caller,             \* who called identify_process_by_name
    launcher_args,      \* the argument of the run_server call in progress
    attempts,           \* locals of identify_process_by_name
    max_attempts,
    id_result,
    id_outcome,         \* "running", then "found" or "not_found"
    queries,            \* process table queries the call has issued
    sleeps,             \* time.sleep(1) calls it has made
    \* ---- what the calls did, for the properties ----
    ret,                \* the last result returned to a caller
    stop_succeeded,     \* terminate_process_by_pid succeeded since the launch
    fresh,              \* no CPU sample since the last reset or launch
    baseline_pid,       \* the process the CPU baseline was read from
    \* ---- calls made of several calls, and calls that overlap ----
    first_run_call,     \* the first_run call: its position and its locals
    threads,            \* per thread: the lifecycle call it is in, its locals
    install_call        \* the install_server call: its position and its locals

backupVars == <<backup_path_exists, backup_dirs, backup_saved, backup_files,
                now, backup_calls, backup_last>>

mergeVars == <<ini_file, ini_original, written_settings, settings_to_change,
               public_ip, merge_calls, merge_result>>

handleVars == <<app_os, pid, running, expected_to_be_running, last_cpu_check,
                last_cpu_time, server_process, bot_options, launch_options,
                db_launcher_options>>

localVars == <<use_get_counters>>

installVars == <<install_call>>

osVars == <<processes, cpu_jiffies, cpu_clock>>

callVars == <<pc, caller, launcher_args, attempts, max_attempts, id_result,
              id_outcome, queries, sleeps>>

ghostVars == <<ret, stop_succeeded, fresh, baseline_pid>>

sequenceVars == <<first_run_call, threads>>

procVars ==
    <<handleVars, localVars, osVars, callVars, ghostVars, sequenceVars,
      installVars>>

vars == <<backupVars, mergeVars, procVars>>

(***************************************************************************)
(* Bounds of the model.                                                    *)
(***************************************************************************)
MaxClock == 1
MaxBackupCalls == 2
MaxRetain == 1
MaxEntries == 2
MaxMergeCalls == 2
MaxLaunches == 2
MaxTime == 2
MaxCpu == 1

(***************************************************************************)
(* Text helpers.                                                           *)
(***************************************************************************)
DQ == "\""

\* The characters the model uses, in code point order (Python compares
\* strings by code point).
Alphabet ==
    << " ", DQ, "(", ")", ",", "-", "0", "1", "2", "3", "4", "5", "6", "7",
       "8", "9", "=", "A", "B", "F", "L", "P", "R", "a", "b", "c", "d", "e",
       "h", "i", "k", "l", "n", "o", "p", "r", "s", "t", "u", "x", "y" >>

OrdTable ==
    [ c \in { Alphabet[i] : i \in 1..Len(Alphabet) } |->
        CHOOSE i \in 1..Len(Alphabet) : Alphabet[i] = c ]

\* Python's ord(c), up to the characters left out.
Ord(c) == OrdTable[c]

\* Python's str < str.
RECURSIVE StrLess(_, _)
StrLess(a, b) ==
    IF a = <<>> THEN b # <<>>
    ELSE IF b = <<>> THEN FALSE
    ELSE IF Head(a) = Head(b) THEN StrLess(Tail(a), Tail(b))
    ELSE Ord(Head(a)) < Ord(Head(b))

\* Python's s.find(sub): the lowest 0-based index of sub in s, or -1.
Find(s, sub) ==
    LET hits == { i \in 1..(Len(s) - Len(sub) + 1) :
                    SubSeq(s, i, i + Len(sub) - 1) = sub }
    IN  IF hits = {} THEN -1
        ELSE (CHOOSE i \in hits : \A j \in hits : i <= j) - 1

\* Python's list.sort(reverse=False) on a list of distinct strings.
RECURSIVE SortAscending(_)
SortAscending(S) ==
    IF S = {} THEN <<>>
    ELSE LET m == CHOOSE x \in S : \A y \in S \ {x} : StrLess(x, y)
         IN  <<m>> \o SortAscending(S \ {m})

Range(s) == { s[i] : i \in 1..Len(s) }

(***************************************************************************)
(* backup_server                                                           *)
(***************************************************************************)
AutoBackupTag == <<"A", "u", "t", "o", "B", "a", "c", "k", "u", "p">>
LaunchBackupTag == <<"L", "a", "u", "n", "c", "h", "B", "a", "c", "k", "u", "p">>
FirstRunBackupTag ==
    <<"F", "i", "r", "s", "t", "R", "u", "n", "B", "a", "c", "k", "u", "p">>

Digit(n) == Alphabet[Ord("0") + n]

\* time.strftime("%Y-%m-%d_%H-%M-%S"): a fixed-width rendering of the clock,
\* here the two-digit seconds count.
Strftime(t) == <<Digit(t \div 10), Digit(t % 10)>>

BackupTypes == {"manual", "launch", "firstrun", "auto"}

\* A naming that tags every backup that is not a manual one.
BackupFolderNameTwoKinds(timestamp, backup_type) ==
    IF backup_type = "manual" THEN timestamp
    ELSE timestamp \o <<"-">> \o AutoBackupTag

\* The timestamped folder of a backup of the given kind (the parent of the
\* "Saved" folder the data is copied to).
BackupFolderName(timestamp, backup_type) ==
    IF backup_type = "manual" THEN timestamp
    ELSE IF backup_type = "launch" THEN timestamp \o <<"-">> \o LaunchBackupTag
    ELSE IF backup_type = "firstrun"
         THEN timestamp \o <<"-">> \o FirstRunBackupTag
    ELSE timestamp \o <<"-">> \o AutoBackupTag

\* A prune step that forgets the tag filter.
FoldersToPruneUntagged(dirs) == SortAscending(dirs)

\* The folders the prune step considers: the directories of the listing of
\* backup_path whose name contains AutoBackup, sorted ascending.
FoldersToPrune(dirs) ==
    SortAscending({ f \in dirs : Find(f, AutoBackupTag) # -1 })

\* A prune step that removes one folder too many.
PrunedFoldersOffByOne(dirs, backup_count) ==
    LET folders_to_prune == SortAscending({ f \in dirs : Find(f, AutoBackupTag) # -1 })
    IN  IF Len(folders_to_prune) >= backup_count
        THEN { folders_to_prune[i] :
                 i \in 1..(Len(folders_to_prune) - backup_count + 1) }
        ELSE {}

\* The folders the prune step removes for a retain count backup_count > 0.
PrunedFolders(dirs, backup_count) ==
    LET folders_to_prune == FoldersToPrune(dirs)
    IN  IF Len(folders_to_prune) > backup_count
        THEN { folders_to_prune[i] :
                 i \in 1..(Len(folders_to_prune) - backup_count) }
        ELSE {}

\* The test `if int(backup_count) > 0` that guards the prune step.
PruneRequestedOrZero(backup_count) == backup_count >= 0
PruneRequested(backup_count) == backup_count > 0

\* What os.listdir returns for the data folder, and what it may return for
\* the copy: the order of a listing is arbitrary, and the server may write
\* to the data folder while it is copied.
DataContents == <<"Level", "Players">>
Listings == { <<"Level", "Players">>, <<"Players", "Level">> }

\* How shutil.copytree may end, besides finding its destination in place:
\* done, failed before creating anything, failed after creating folders.
CopyOutcomes == {"copied", "failed_early", "failed_partial"}

NoName == <<"?">>

\* The queries a caller may pass: a dict that holds backup_type and
\* backup_count (0: no pruning), a negative count, or a dict that lacks one
\* of the keys.
RetainCounts == 0..MaxRetain
Queries ==
    [backup_type : BackupTypes, backup_count : RetainCounts]
      \cup { [backup_type |-> "auto", backup_count |-> -1],
              [backup_type |-> "auto"] }

\* One call of backup_server.
backup_server(query, copy, backup_contents) ==
    LET has_type == "backup_type" \in DOMAIN query
        has_count == "backup_count" \in DOMAIN query
        name == IF has_type
                THEN BackupFolderName(Strftime(now), query.backup_type)
                ELSE NoName
        \* the except branch is taken: backup_type is unbound, copytree
        \* raises (its destination exists, or the copy fails), or
        \* int(backup_count) raises on an unbound name
        dest_exists == name \in backup_saved
        copy_raises == dest_exists \/ copy # "copied"
        made == has_type /\ ~dest_exists /\ copy # "failed_early"
        data_contents == DataContents
        match == data_contents = backup_contents
        dirs1 == IF made THEN backup_dirs \cup {name} ELSE backup_dirs
        saved1 == IF made /\ (copy = "failed_partial" \/ match)
                  THEN backup_saved \cup {name} ELSE backup_saved
        reaches_prune == has_type /\ ~copy_raises
        prunes == reaches_prune /\ has_count
                    /\ PruneRequested(query.backup_count)
        pruned == IF prunes THEN PrunedFolders(dirs1, query.backup_count)
                  ELSE {}
        raised == ~has_type \/ copy_raises \/ ~has_count
    IN  /\ backup_calls < MaxBackupCalls
        /\ backup_calls' = backup_calls + 1
        /\ backup_path_exists' = TRUE
        /\ backup_dirs' = dirs1 \ pruned
        /\ backup_saved' = saved1 \ pruned
        /\ backup_last' =
             [ query |-> query,
               folder |-> name,
               created |-> made /\ name \notin backup_dirs,
               verified |-> reaches_prune /\ match,
               mismatch |-> reaches_prune /\ ~match,
               before_prune |-> IF prunes THEN dirs1 ELSE {},
               pruned |-> prunes,
               status |-> IF raised \/ ~match THEN "error" ELSE "success",
               message |->
                 IF raised THEN "Exception while backing up server data"
                 ELSE IF match THEN "Server data backed up successfully"
                 ELSE "Error backing up server data" ]
        /\ UNCHANGED <<backup_files, now>>

BackupServer ==
    \E query \in Queries, copy \in CopyOutcomes, backup_contents \in Listings :
        \* the copy is listed only when copytree returned
        /\ copy # "copied" => backup_contents = DataContents
        /\ backup_server(query, copy, backup_contents)
        /\ UNCHANGED <<mergeVars, procVars>>

\* ---- backup_server of the copy in palworld_admin/servermanager/local ----
\* The folder of a backup: a manual one carries no tag, every other kind
\* carries AutoBackup.
LocalBackupFolderName(timestamp, backup_type) ==
    IF backup_type = "manual" THEN timestamp
    ELSE timestamp \o <<"-">> \o AutoBackupTag

\* Python's list.sort(reverse=True) on a list of distinct strings.
SortDescending(S) ==
    [ i \in 1..Cardinality(S) |-> SortAscending(S)[Cardinality(S) + 1 - i] ]

\* `for folder in backup_folders: if "AutoBackup" not in folder:
\* backup_folders.remove(folder)` from the i-th pass on: the loop goes by
\* position, so after a removal the name that moved into the freed position
\* is not looked at.
RECURSIVE RemoveUntaggedFrom(_, _)
RemoveUntaggedFrom(backup_folders, i) ==
    IF i > Len(backup_folders) THEN backup_folders
    ELSE IF Find(backup_folders[i], AutoBackupTag) = -1
    THEN RemoveUntaggedFrom(
             SubSeq(backup_folders, 1, i - 1)
               \o SubSeq(backup_folders, i + 1, Len(backup_folders)),
             i + 1)
    ELSE RemoveUntaggedFrom(backup_folders, i + 1)

\* The folders the local prune step removes for a retain count
\* backup_count > 0: backup_folders[int(backup_count):].
LocalPrunedFolders(dirs, backup_count) ==
    LET backup_folders == RemoveUntaggedFrom(SortDescending(dirs), 1)
    IN  IF Len(backup_folders) > backup_count
        THEN { backup_folders[i] :
                 i \in (backup_count + 1)..Len(backup_folders) }
        ELSE {}

\* One call of the local backup_server.
local_backup_server(query, copy, backup_contents) ==
    LET has_type == "backup_type" \in DOMAIN query
        has_count == "backup_count" \in DOMAIN query
        name == IF has_type
                THEN LocalBackupFolderName(Strftime(now), query.backup_type)
                ELSE NoName
        dest_exists == name \in backup_saved
        copy_raises == dest_exists \/ copy # "copied"
        made == has_type /\ ~dest_exists /\ copy # "failed_early"
        data_contents == DataContents
        match == data_contents = backup_contents
        dirs1 == IF made THEN backup_dirs \cup {name} ELSE backup_dirs
        saved1 == IF made /\ (copy = "failed_partial" \/ match)
                  THEN backup_saved \cup {name} ELSE backup_saved
        reaches_prune == has_type /\ ~copy_raises
        prunes == reaches_prune /\ has_count
                    /\ PruneRequested(query.backup_count)
        pruned == IF prunes
                  THEN LocalPrunedFolders(dirs1, query.backup_count)
                  ELSE {}
        raised == ~has_type \/ copy_raises \/ ~has_count
    IN  /\ backup_calls < MaxBackupCalls
        /\ backup_calls' = backup_calls + 1
        /\ backup_path_exists' = TRUE
        /\ backup_dirs' = dirs1 \ pruned
        /\ backup_saved' = saved1 \ pruned
        /\ backup_last' =
             [ query |-> query,
               folder |-> name,
               created |-> made /\ name \notin backup_dirs,
               verified |-> reaches_prune /\ match,
               mismatch |-> reaches_prune /\ ~match,
               before_prune |-> IF prunes THEN dirs1 ELSE {},
               pruned |-> prunes,
               status |-> IF raised \/ ~match THEN "error" ELSE "success",
               message |->
                 IF raised THEN "Exception while backing up server data"
                 ELSE IF match THEN "Server data backed up successfully"
                 ELSE "Error backing up server data" ]
        /\ UNCHANGED <<backup_files, now>>

LocalBackupServer ==
    \E query \in Queries, copy \in CopyOutcomes, backup_contents \in Listings :
        /\ copy # "copied" => backup_contents = DataContents
        /\ local_backup_server(query, copy, backup_contents)
        /\ UNCHANGED <<mergeVars, procVars>>

\* The clock advances (it is read by the next call only).
ClockTick ==
    /\ now < MaxClock
    /\ backup_calls < MaxBackupCalls
    /\ now' = now + 1
    /\ UNCHANGED <<backup_path_exists, backup_dirs, backup_saved,
                   backup_files, backup_calls, backup_last>>
    /\ UNCHANGED <<mergeVars, procVars>>

\* Folders found under backup_path before the first call: earlier backups
\* and a folder of another origin whose name carries the tag.
OldAutoBackup == <<"o", "l", "d">> \o AutoBackupTag
InitialFolders == { BackupFolderName(Strftime(0), "auto"), OldAutoBackup }
InitialFiles == { <<"x">> \o AutoBackupTag }

BackupInit ==
    /\ backup_path_exists \in BOOLEAN
    /\ backup_dirs \in SUBSET InitialFolders
    /\ backup_path_exists = FALSE => backup_dirs = {}
    /\ backup_saved = backup_dirs
    /\ backup_files = IF backup_path_exists THEN InitialFiles ELSE {}
    /\ now = 0
    /\ backup_calls = 0
    /\ backup_last =
         [ query |-> <<>>, folder |-> NoName,
           created |-> FALSE, verified |-> FALSE, mismatch |-> FALSE,
           before_prune |-> {}, pruned |-> FALSE,
           status |-> "none", message |-> "" ]


(***************************************************************************)
(* update_palworld_settings_ini                                            *)
(***************************************************************************)
NL == "\n"
Whitespace == {" ", NL}

StartsWith(s, prefix) ==
    Len(s) >= Len(prefix) /\ SubSeq(s, 1, Len(prefix)) = prefix

EndsWith(s, suffix) ==
    Len(s) >= Len(suffix)
      /\ SubSeq(s, Len(s) - Len(suffix) + 1, Len(s)) = suffix

\* Python's s.rfind(sub): the highest 0-based index of sub in s, or -1.
RFind(s, sub) ==
    LET hits == { i \in 1..(Len(s) - Len(sub) + 1) :
                    SubSeq(s, i, i + Len(sub) - 1) = sub }
    IN  IF hits = {} THEN -1
        ELSE (CHOOSE i \in hits : \A j \in hits : i >= j) - 1

\* Python's s.strip().
RECURSIVE Strip(_)
Strip(s) ==
    IF s = <<>> THEN s
    ELSE IF Head(s) \in Whitespace THEN Strip(Tail(s))
    ELSE IF s[Len(s)] \in Whitespace THEN Strip(SubSeq(s, 1, Len(s) - 1))
    ELSE s

\* Python's s.partition("="): <<head, sep, tail>>.
Partition(s, sep) ==
    LET at == Find(s, sep)
    IN  IF at = -1 THEN <<s, <<>>, <<>>>>
        ELSE <<SubSeq(s, 1, at), sep, SubSeq(s, at + Len(sep) + 1, Len(s))>>

\* Python's ",".join(list).
RECURSIVE Join(_, _)
Join(list, sep) ==
    IF list = <<>> THEN <<>>
    ELSE IF Len(list) = 1 THEN list[1]
    ELSE list[1] \o sep \o Join(Tail(list), sep)

CountQuotes(s) == Cardinality({ i \in 1..Len(s) : s[i] = DQ })

\* quote_value_if_needed with the test for an enclosing pair left out.
QuoteAlways(value) ==
    IF \E i \in 1..Len(value) : value[i] \in {" ", ",", "(", ")"}
    THEN <<DQ>> \o value \o <<DQ>>
    ELSE value

\* quote_value_if_needed: a value that starts and ends with a double quote
\* is returned as it is, a value holding a space, a comma or a parenthesis
\* is wrapped in double quotes, any other value is returned as it is.
quote_value_if_needed(value) ==
    IF StartsWith(value, <<DQ>>) /\ EndsWith(value, <<DQ>>) THEN value
    ELSE IF \E i \in 1..Len(value) : value[i] \in {" ", ",", "(", ")"}
    THEN <<DQ>> \o value \o <<DQ>>
    ELSE value

\* The end of the whitespace run that starts at index i of s.
RECURSIVE SkipSpace(_, _)
SkipSpace(s, i) ==
    IF i <= Len(s) /\ s[i] \in Whitespace THEN SkipSpace(s, i + 1) ELSE i

\* split_settings_string: re.split on the pattern
\*     ,\s*(?=(?:[^"]*"[^"]*")*[^"]*$)
\* A comma, with the whitespace after it, separates two entries when an
\* even number of double quotes follows it.  i scans s, start is where the
\* current entry begins, acc holds the entries found.
RECURSIVE SplitFrom(_, _, _, _)
SplitFrom(s, i, start, acc) ==
    IF i > Len(s) THEN Append(acc, SubSeq(s, start, Len(s)))
    ELSE LET j == SkipSpace(s, i + 1)
         IN  IF s[i] = "," /\ CountQuotes(SubSeq(s, j, Len(s))) % 2 = 0
             THEN SplitFrom(s, j, j, Append(acc, SubSeq(s, start, i - 1)))
             ELSE SplitFrom(s, i + 1, start, acc)

split_settings_string(settings_string) ==
    SplitFrom(settings_string, 1, 1, <<>>)

\* The dict as a list of <<key, value>> pairs, in insertion order.
DictKeys(dict) == { dict[i][1] : i \in 1..Len(dict) }
DictGet(dict, key) ==
    dict[CHOOSE i \in 1..Len(dict) : dict[i][1] = key][2]
\* dict[key] = value: the value is replaced in place, a new key goes last.
DictSet(dict, key, value) ==
    IF key \in DictKeys(dict)
    THEN [ i \in 1..Len(dict) |->
             IF dict[i][1] = key THEN <<key, value>> ELSE dict[i] ]
    ELSE Append(dict, <<key, value>>)
\* dict.pop(key), for a key of the dict.
DictPop(dict, key) ==
    LET at == CHOOSE i \in 1..Len(dict) : dict[i][1] = key
    IN  SubSeq(dict, 1, at - 1) \o SubSeq(dict, at + 1, Len(dict))

OptionSettingsMarker ==
    <<"O", "p", "t", "i", "o", "n", "S", "e", "t", "t", "i", "n", "g", "s", "=">>
RCONEnabled == <<"R", "C", "O", "N", "E", "n", "a", "b", "l", "e", "d">>
PublicIP == <<"P", "u", "b", "l", "i", "c", "I", "P">>

\* The loop over the entries of one directive line: each entry is rewritten
\* from the update if its key is updated, and requoted if it is not; the
\* key is popped from the updates left.  The pop raises KeyError when an
\* updated key comes twice in the line.
RECURSIVE ModifySettings(_, _, _, _)
ModifySettings(settings, to_change, left_to_change, modified_settings) ==
    IF settings = <<>>
    THEN [ raised |-> FALSE, modified |-> modified_settings,
           left |-> left_to_change ]
    ELSE LET setting == Head(settings)
             parts == Partition(setting, <<"=">>)
             key == Strip(parts[1])
             value == parts[3]
         IN  IF key \in DictKeys(to_change)
             THEN IF key \notin DictKeys(left_to_change)
                  THEN [ raised |-> TRUE, modified |-> modified_settings,
                         left |-> left_to_change ]
                  ELSE ModifySettings(
                         Tail(settings), to_change,
                         DictPop(left_to_change, key),
                         Append(modified_settings,
                                key \o <<"=">>
                                  \o quote_value_if_needed(DictGet(to_change, key))))
             ELSE ModifySettings(
                    Tail(settings), to_change, left_to_change,
                    Append(modified_settings,
                           key \o <<"=">> \o quote_value_if_needed(value)))

\* The same tokens, last update first.
NewSettingsReversed(left_to_change) ==
    [ i \in 1..Len(left_to_change) |->
        left_to_change[Len(left_to_change) + 1 - i][1] \o <<"=">>
          \o quote_value_if_needed(
                left_to_change[Len(left_to_change) + 1 - i][2]) ]

\* The updates whose key matched no entry, appended in the dict's order.
NewSettings(left_to_change) ==
    [ i \in 1..Len(left_to_change) |->
        left_to_change[i][1] \o <<"=">>
          \o quote_value_if_needed(left_to_change[i][2]) ]

\* The test `if settings_string_end > settings_string_start` that lets the
\* merge of a directive line go on.
SpanOkOrEmpty(settings_string_start, settings_string_end) ==
    settings_string_end >= settings_string_start
SpanOk(settings_string_start, settings_string_end) ==
    settings_string_end > settings_string_start

\* The body of the loop for one line that starts with OptionSettings=.
\* kind: "ok" (line rewritten), "span" (the error return, closing
\* parenthesis not after the opening one), "raised" (KeyError).
ModifyLine(settings_line, to_change) ==
    LET settings_string_start == Find(settings_line, <<"(">>) + 1
        settings_string_end == RFind(settings_line, <<")">>)
    IN  IF ~SpanOk(settings_string_start, settings_string_end)
        THEN [ kind |-> "span", line |-> settings_line, entries |-> <<>> ]
        ELSE LET settings_string ==
                   SubSeq(settings_line, settings_string_start + 1,
                          settings_string_end)
                 settings == split_settings_string(settings_string)
                 done == ModifySettings(settings, to_change, to_change, <<>>)
                 modified_settings ==
                   done.modified \o NewSettings(done.left)
             IN  IF done.raised
                 THEN [ kind |-> "raised", line |-> settings_line,
                        entries |-> <<>> ]
                 ELSE [ kind |-> "ok",
                        line |-> OptionSettingsMarker \o <<"(">>
                                   \o Join(modified_settings, <<",">>)
                                   \o <<")", NL>>,
                        entries |-> modified_settings ]

\* The loop over the lines of the file; it stops at the first line that
\* ends the call.
RECURSIVE ModifyLinesFrom(_, _, _, _)
ModifyLinesFrom(lines, i, to_change, entries) ==
    IF i > Len(lines)
    THEN [ kind |-> "ok", lines |-> lines, entries |-> entries ]
    ELSE IF StartsWith(lines[i], OptionSettingsMarker)
    THEN LET m == ModifyLine(lines[i], to_change)
         IN  IF m.kind = "ok"
             THEN ModifyLinesFrom([lines EXCEPT ![i] = m.line], i + 1,
                                  to_change, m.entries)
             ELSE [ kind |-> m.kind, lines |-> lines, entries |-> entries ]
    ELSE ModifyLinesFrom(lines, i + 1, to_change, entries)

ModifyLines(lines, i, to_change) ==
    ModifyLinesFrom(lines, i, to_change, <<>>)

\* A reader that drops the line ends.
file_to_stripped_lines(file) ==
    [ status |-> "success",
      lines |-> [ i \in 1..Len(file) |-> Strip(file[i]) ] ]

\* file_to_lines of palworld_admin.helper.fileprocessing: the lines of the
\* file, each with its line end.
file_to_lines(file) == [ status |-> "success", lines |-> file ]

\* The dict after the two assignments that precede the merge: PublicIP is
\* set to the quoted address and RCONEnabled is capitalised.
NormaliseUpdates(dict, ip) ==
    LET with_ip == DictSet(dict, PublicIP, <<DQ>> \o ip \o <<DQ>>)
        rcon == DictGet(with_ip, RCONEnabled)
    IN  IF rcon = <<"t", "r", "u", "e">>
        THEN DictSet(with_ip, RCONEnabled, <<"T", "r", "u", "e">>)
        ELSE IF rcon = <<"f", "a", "l", "s", "e">>
        THEN DictSet(with_ip, RCONEnabled, <<"F", "a", "l", "s", "e">>)
        ELSE with_ip

\* One call of update_palworld_settings_ini(settings_to_change).
update_palworld_settings_ini ==
    /\ merge_calls < MaxMergeCalls
    /\ merge_calls' = merge_calls + 1
    /\ UNCHANGED <<public_ip, ini_original>>
    /\ IF public_ip = <<>>
       THEN /\ merge_result' =
                 [ status |-> "error",
                   message |-> "Error getting public IP address" ]
            /\ UNCHANGED <<ini_file, settings_to_change, written_settings>>
       ELSE IF RCONEnabled \notin DictKeys(settings_to_change)
       THEN \* settings_to_change["RCONEnabled"] raises KeyError, outside
            \* the try block: the call raises
            /\ merge_result' = [ status |-> "raised", message |-> "KeyError" ]
            /\ settings_to_change' =
                 DictSet(settings_to_change, PublicIP,
                         <<DQ>> \o public_ip \o <<DQ>>)
            /\ UNCHANGED <<ini_file, written_settings>>
       ELSE LET to_change == NormaliseUpdates(settings_to_change, public_ip)
                lines == file_to_lines(ini_file).lines
                done == ModifyLines(lines, 1, to_change)
            IN  /\ settings_to_change' = to_change
                /\ written_settings' = done.entries
                /\ IF done.kind = "ok"
                   THEN /\ ini_file' = done.lines
                        /\ merge_result' =
                             [ status |-> "success",
                               message |-> "Settings updated successfully" ]
                   ELSE /\ UNCHANGED ini_file
                        /\ merge_result' =
                             [ status |-> "error",
                               message |->
                                 IF done.kind = "span"
                                 THEN "Error reading settings file, settings_string_end is less than settings_string_start"
                                 ELSE "Error writing settings file" ]

UpdatePalworldSettingsIni ==
    /\ update_palworld_settings_ini
    /\ UNCHANGED <<backupVars, procVars>>

\* ---- the write-back, interrupted ----
\* What the settings file holds when the process is stopped (killed, out of
\* power) between open(ini_path, "w"), which empties the file, and the end
\* of the with block: the first n lines and, of the next line, nothing or
\* its first half.
InterruptedWrites(lines) ==
    { SubSeq(lines, 1, n) : n \in 0..(Len(lines) - 1) }
      \cup { Append(SubSeq(lines, 1, n),
                    SubSeq(lines[n + 1], 1, Len(lines[n + 1]) \div 2)) :
               n \in 0..(Len(lines) - 1) }

\* A call of update_palworld_settings_ini that gets as far as the
\* write-back and is stopped in it: nothing is returned.
UpdateInterrupted ==
    /\ merge_calls < MaxMergeCalls
    /\ public_ip # <<>>
    /\ RCONEnabled \in DictKeys(settings_to_change)
    /\ LET to_change == NormaliseUpdates(settings_to_change, public_ip)
           lines == file_to_lines(ini_file).lines
           done == ModifyLines(lines, 1, to_change)
       IN  /\ done.kind = "ok"
           /\ merge_calls' = merge_calls + 1
           /\ settings_to_change' = to_change
           /\ written_settings' = done.entries
           /\ ini_file' \in InterruptedWrites(done.lines)
           /\ merge_result' = [ status |-> "interrupted", message |-> "" ]
    /\ UNCHANGED <<public_ip, ini_original>>
    /\ UNCHANGED <<backupVars, procVars>>

\* ---- read_server_settings ----
\* The characters \w matches, among those of the settings file.
WordChars ==
    { "A", "B", "C", "D", "E", "F", "G", "H", "I", "J", "K", "L", "M",
      "N", "O", "P", "Q", "R", "S", "T", "U", "V", "W", "X", "Y", "Z",
      "a", "b", "c", "d", "e", "f", "g", "h", "i", "j", "k", "l", "m",
      "n", "o", "p", "q", "r", "s", "t", "u", "v", "w", "x", "y", "z",
      "0", "1", "2", "3", "4", "5", "6", "7", "8", "9", "_" }

\* The first index from i on where s holds a character of stop, or
\* Len(s) + 1.
RECURSIVE ScanTo(_, _, _)
ScanTo(s, i, stop) ==
    IF i > Len(s) \/ s[i] \in stop THEN i ELSE ScanTo(s, i + 1, stop)

\* The end of the run of word characters that starts at index i of s.
RECURSIVE SkipWord(_, _)
SkipWord(s, i) ==
    IF i <= Len(s) /\ s[i] \in WordChars THEN SkipWord(s, i + 1) ELSE i

\* The value group ("[^"]*"|[^,]*) matched at index k of s: a double quote
\* up to the next double quote if there is one, and otherwise the text up to
\* the next comma.
MatchValue(s, k) ==
    IF k <= Len(s) /\ s[k] = DQ /\ ScanTo(s, k + 1, {DQ}) <= Len(s)
    THEN SubSeq(s, k, ScanTo(s, k + 1, {DQ}))
    ELSE SubSeq(s, k, ScanTo(s, k, {","}) - 1)

\* re.compile(r'(\w+)=("[^"]*"|[^,]*)').findall(s): the matches from left
\* to right, without overlap.  A match starts at a run of word characters
\* that an equals sign follows; the scan goes on after the value.
RECURSIVE FindAllFrom(_, _, _)
FindAllFrom(s, i, acc) ==
    IF i > Len(s) THEN acc
    ELSE IF s[i] \notin WordChars THEN FindAllFrom(s, i + 1, acc)
    ELSE LET j == SkipWord(s, i)
         IN  IF j > Len(s) \/ s[j] # "="
             THEN FindAllFrom(s, j, acc)
             ELSE LET value == MatchValue(s, j + 1)
                  IN  FindAllFrom(s, j + 1 + Len(value),
                                  Append(acc, <<SubSeq(s, i, j - 1), value>>))

\* Python's s.strip('"').
RECURSIVE StripQuotes(_)
StripQuotes(s) ==
    IF s = <<>> THEN s
    ELSE IF Head(s) = DQ THEN StripQuotes(Tail(s))
    ELSE IF s[Len(s)] = DQ THEN StripQuotes(SubSeq(s, 1, Len(s) - 1))
    ELSE s

\* The dict comprehension {key.strip(): value.strip('"') ...}: a key that
\* comes again keeps its place and takes the later value.
RECURSIVE SettingsDict(_, _)
SettingsDict(settings, acc) ==
    IF settings = <<>> THEN acc
    ELSE SettingsDict(Tail(settings),
                      DictSet(acc, Strip(Head(settings)[1]),
                              StripQuotes(Head(settings)[2])))

\* Python's content[a:b] for a >= 0: b counts from the end when negative.
Slice(content, a, b) ==
    SubSeq(content, a + 1, IF b < 0 THEN Len(content) + b ELSE b)

LocalIP == <<"L", "o", "c", "a", "l", "I", "P">>

\* read_server_settings() on a file that can be read, with local_ip what
\* get_local_ip() returns: the whole text is searched, from the end of the
\* first "OptionSettings=(" to the last closing parenthesis.
read_server_settings(file, local_ip) ==
    LET content == Join(file, <<>>)
        settings_start ==
            Find(content, OptionSettingsMarker \o <<"(">>)
              + Len(OptionSettingsMarker \o <<"(">>)
        settings_end == RFind(content, <<")">>)
        settings_string == Slice(content, settings_start, settings_end)
        settings_dict == SettingsDict(FindAllFrom(settings_string, 1, <<>>),
                                      <<>>)
    IN  IF local_ip = <<>>
        THEN [ status |-> "error",
               message |-> "Error getting local IP address",
               settings |-> settings_dict ]
        ELSE [ status |-> "success",
               message |-> "",
               settings |-> DictSet(settings_dict, LocalIP, local_ip) ]

\* The settings files the model starts from: a header line and a directive
\* line of up to MaxEntries entries, and a few files of other shapes.
KeyA == <<"A">>
KeyB == <<"B">>
KeyC == <<"C">>
DocKeys == {KeyA, KeyB}
DocValues ==
    { <<"1">>,                       \* 1
      <<"x", " ", "y">>,             \* x y     unquoted, with a space
      <<DQ, "x", ",", "y", DQ>>,     \* "x,y"   quoted, with a comma
      <<"(", "1", ")">>,             \* (1)     unquoted, in parentheses
      <<DQ, "x">> }                  \* "x      an unbalanced quote
Entries == { k \o <<"=">> \o v : k \in DocKeys, v \in DocValues }
EntryLists == UNION { [1..n -> Entries] : n \in 1..MaxEntries }

HeaderLine == <<"[", "s", "]", NL>>
DirectiveLine(entries, sep, trailer) ==
    OptionSettingsMarker \o <<"(">> \o Join(entries, sep) \o <<")">>
      \o trailer \o <<NL>>

SpecialDocuments ==
    { \* no directive line
      <<HeaderLine>>,
      \* the closing parenthesis before the opening one
      <<HeaderLine, OptionSettingsMarker \o <<")", "(", NL>>>>,
      \* nothing between the parentheses
      <<HeaderLine, OptionSettingsMarker \o <<"(", ")", NL>>>>,
      \* OptionSettings=(A=1,B="x,y"),
      <<DirectiveLine(<<KeyA \o <<"=", "1">>,
                        KeyB \o <<"=", DQ, "x", ",", "y", DQ>>>>,
                      <<",">>, <<",">>)>>,
      \* OptionSettings=(A=1, B="x,y"),  followed by another line
      <<HeaderLine,
        DirectiveLine(<<KeyA \o <<"=", "1">>,
                        KeyB \o <<"=", DQ, "x", ",", "y", DQ>>>>,
                      <<",", " ">>, <<",">>),
        HeaderLine>> }

Documents ==
    { <<HeaderLine, DirectiveLine(es, <<",">>, <<>>)>> : es \in EntryLists }
      \cup SpecialDocuments

\* The update dicts the model starts from: RCONEnabled, with or without an
\* update of the existing key A and of the new key C; and a dict that
\* lacks RCONEnabled.
UpdateValues ==
    { <<"2">>,                       \* 2
      <<"x", ",", "y">>,             \* x,y
      <<"x", " ", "y">>,             \* x y
      <<DQ, "q", DQ>>,               \* "q"
      <<"x", DQ, ",", DQ, "y">>,     \* x","y  quotes inside, balanced
      <<"x", DQ, ",", "B", "=", DQ, "y">>,   \* x",B="y  an entry inside
      <<"x", DQ>> }                  \* x"      an unbalanced quote
RconValues == { <<"t", "r", "u", "e">>, <<"F", "a", "l", "s", "e">> }
UpdateDicts ==
    { a \o <<<<RCONEnabled, r>>>> \o c :
        a \in {<<>>} \cup { <<<<KeyA, v>>>> : v \in UpdateValues },
        r \in RconValues,
        c \in { <<>>, <<<<KeyC, <<"3">>>>>> } }
      \cup { <<<<KeyA, <<"2">>>>>> }

PublicAddress == <<"1", ".", "2">>

MergeInit ==
    /\ ini_file \in Documents
    /\ ini_original = ini_file
    /\ written_settings = <<>>
    /\ settings_to_change \in UpdateDicts
    /\ public_ip \in {<<>>, PublicAddress}
    /\ merge_calls = 0
    /\ merge_result = [status |-> "none", message |-> ""]

MergeIdle ==
    /\ ini_file = <<>>
    /\ ini_original = <<>>
    /\ written_settings = <<>>
    /\ settings_to_change = <<>>
    /\ public_ip = <<>>
    /\ merge_calls = 0
    /\ merge_result = [status |-> "none", message |-> ""]

(***************************************************************************)
(* The process lifecycle: the handle app_settings.localserver, the         *)
(* operating system's process table, and identify_process_by_name,         *)
(* run_server, get_cpu_time_by_pid, check_server_running and               *)
(* terminate_process_by_pid.                                               *)
(***************************************************************************)
\* Python's None, for the pid, the CPU baseline and the Popen object.
None == -1

\* max_attempts of identify_process_by_name: 5, or 1 when the server is not
\* expected to be running.
max_attempts_expected == 5
max_attempts_unexpected == 1

\* app_settings.localserver.cpu_cores and os.sysconf("SC_CLK_TCK").
cpu_cores == 2
jiffies_per_second == 100

Platforms == {"Windows", "Linux"}

\* The process ids the operating system hands out to launched servers.
Pids == 1..MaxLaunches

\* The launcher_args a caller passes to run_server.
LauncherArgs == {"args1", "args2"}
NoOptions == "unset"

Alive(p) == p \in Pids /\ processes[p] = "alive"
Exists(p) == p \in Pids /\ processes[p] \in {"starting", "alive"}
AlivePids == { p \in Pids : processes[p] = "alive" }
Launched == { p \in Pids : processes[p] # "none" }

\* The result dict of identify_process_by_name.
EmptyResult == [status |-> "none", value |-> "none"]
Found == [status |-> "success", value |-> "pid"]
NoMatch == [status |-> "success", value |-> "No matching processes found."]
ProcessNotFound == [status |-> "error", value |-> "Process not found"]
FindCommandFailed ==
    [status |-> "error", value |-> "Failed to find process due to error."]
FailedToFindKept(result) == result
FailedToFind(result) ==
    [status |-> "error", value |-> "Failed to find process"]

\* The loop ended one pass earlier, and never.
ExhaustedAtCeiling(n, max) == n >= max
NeverExhausted(n, max) == FALSE
\* attempts > max_attempts, the test that ends the retry loop.
Exhausted(n, max) == n > max

\* What one query of the process table can answer: the pid of a matching
\* process when there is one (pgrep's first line, the path filter's match),
\* and when there is none a failed command, no output at all or, from the
\* PowerShell pipeline, an output that holds no pid.
FindOutcomes ==
    IF AlivePids # {}
    THEN { <<"found", p>> : p \in AlivePids }
    ELSE { <<o, None>> :
             o \in {"fails", "nothing"} \cup
                   (IF app_os = "Windows" THEN {"empty_match"} ELSE {}) }

\* The last result handed back to a caller (NoReturn while a call is in its
\* retry loop). cpu_usage is in hundredths of a
\* percent (round(x, 2)); sample tells whether get_cpu_time_by_pid computed
\* it from a baseline, and whose baseline.
\* identified tells what the call of identify_process_by_name made on the way
\* did: how it ended, its result, the queries it issued, its sleeps.
NoIdentify ==
    [outcome |-> "none", result |-> EmptyResult, queries |-> 0, sleeps |-> 0,
     expected |-> FALSE]

NoReturn ==
    [op |-> "none", status |-> "none", message |-> "none", value |-> FALSE,
     cpu_usage |-> 0, sample |-> "none", sampled_pid |-> None,
     baseline_of |-> None, identified |-> NoIdentify]

Return(op, status, message, value) ==
    [NoReturn EXCEPT !.op = op, !.status = status, !.message = message,
                     !.value = value]

\* No call of first_run so far. at is the position of the call: "none",
\* "start" (entered), "run_server", "terminated", "copied", "done"; steps
\* are the steps it has executed; start, terminated, copied and
\* rcon_enabled are what run_server, terminate_process_by_pid,
\* copy_default_settings and update_palworld_settings_ini returned to it.
NoFirstRun ==
    [at |-> "none", steps |-> <<>>, start |-> "none", terminated |-> FALSE,
     copied |-> "none", rcon_enabled |-> "none",
     result |-> [status |-> "none", message |-> "none"]]

\* The threads that may call into the lifecycle at the same time, and the
\* locals of the call each one is in: none so far.
Threads == {1, 2}
NoCall ==
    [pc |-> "idle", op |-> "none", args |-> NoOptions, attempts |-> 0,
     max_attempts |-> 0,
     result |-> EmptyResult,
     ret |-> [status |-> "none", message |-> "none"]]
NoThreads == [t \in Threads |-> NoCall]

\* No call of install_server so far. at is the position of the call:
\* "none", "first_run" (first_run called and not back yet) or "done"; steps
\* are the steps it has executed; steamcmd, palserver and first_run are the
\* statuses the steps returned ("none": not called), saved_data the value
\* check_palworld_install returned; status is result["status"], "missing"
\* while the key is not set.
NoInstall ==
    [at |-> "none", steps |-> <<>>, steamcmd |-> "none", palserver |-> "none",
     saved_data |-> "none", first_run |-> "none", status |-> "missing"]

\* app_settings.localserver as the application starts.
ProcInit ==
    /\ app_os \in Platforms
    /\ pid = None
    /\ running = FALSE
    /\ expected_to_be_running = FALSE
    /\ last_cpu_check = None
    /\ last_cpu_time = None
    /\ server_process = None
    /\ bot_options = NoOptions
    /\ launch_options = NoOptions
    /\ db_launcher_options = NoOptions
    /\ use_get_counters = TRUE
    /\ processes = [p \in Pids |-> "none"]
    /\ cpu_jiffies = [p \in Pids |-> 0]
    /\ cpu_clock = 0
    /\ pc = "idle"
    /\ caller = "none"
    /\ launcher_args = NoOptions
    /\ attempts = 0
    /\ max_attempts = 0
    /\ id_result = EmptyResult
    /\ id_outcome = "none"
    /\ queries = 0
    /\ sleeps = 0
    /\ ret = NoReturn
    /\ stop_succeeded = FALSE
    /\ fresh = TRUE
    /\ baseline_pid = None
    /\ first_run_call = NoFirstRun
    /\ threads = NoThreads
    /\ install_call = NoInstall

\* ---- the operating system ----
\* A launched server shows up in the process table.
ProcessAppears ==
    \E p \in Pids :
        /\ processes[p] = "starting"
        /\ processes' = [processes EXCEPT ![p] = "alive"]
        /\ UNCHANGED <<handleVars, cpu_jiffies, cpu_clock, callVars, ghostVars>>
        /\ UNCHANGED <<installVars, localVars, backupVars, mergeVars, sequenceVars>>

\* A server process ends on its own (a crash, a launch that fails); its
\* /proc entry goes with it.
ProcessExits ==
    \E p \in Pids :
        /\ Exists(p)
        /\ processes' = [processes EXCEPT ![p] = "gone"]
        /\ cpu_jiffies' = [cpu_jiffies EXCEPT ![p] = 0]
        /\ UNCHANGED <<handleVars, cpu_clock, callVars, ghostVars>>
        /\ UNCHANGED <<installVars, localVars, backupVars, mergeVars, sequenceVars>>

\* A call returns: its locals are gone.
ReturnToCaller ==
    /\ pc' = "idle"
    /\ caller' = "none"
    /\ launcher_args' = NoOptions
    /\ attempts' = 0
    /\ max_attempts' = 0
    /\ id_result' = EmptyResult
    /\ id_outcome' = "none"
    /\ queries' = 0
    /\ sleeps' = 0

\* ---- identify_process_by_name ----
MaxAttempts(expected) ==
    IF ~expected THEN max_attempts_unexpected ELSE max_attempts_expected

\* The entry of identify_process_by_name: the pid is forgotten and the
\* retry loop is set up. who is the caller the result goes back to.
EnterIdentify(who, expected) ==
    /\ pid' = None
    /\ attempts' = 0
    /\ max_attempts' = MaxAttempts(expected)
    /\ id_result' = EmptyResult
    /\ pc' = "identify"
    /\ caller' = who
    /\ id_outcome' = "running"
    /\ queries' = 0
    /\ sleeps' = 0
    /\ ret' = NoReturn

\* The test `identified["status"] == "success"` of run_server.
ConfirmedAlways(identified) == TRUE
Confirmed(identified) == identified.status = "success"

\* The result of run_server once identify_process_by_name has returned.
RunServerResult(identified) ==
    IF identified.status = "success"
    THEN Return("run_server", "success", "Server started successfully", FALSE)
    ELSE Return("run_server", "error", "Error starting server", FALSE)

\* One pass of the loop `while not app_settings.localserver.pid`: a query
\* of the process table, the count of the attempt, the break once the
\* attempts are used up, the sleep of one second; and, when the loop
\* ends, the return to the caller.
IdentifyStep ==
    /\ pc = "identify"
    /\ \E o \in FindOutcomes :
        LET kind == o[1]
            pid1 == IF kind = "found" THEN o[2] ELSE None
            running1 ==
                CASE kind = "found" -> TRUE
                  [] kind = "empty_match" -> FALSE
                  [] OTHER -> running
            result1 ==
                CASE kind = "found" -> Found
                  [] kind = "empty_match" -> NoMatch
                  [] kind = "fails" ->
                        IF app_os = "Windows" THEN ProcessNotFound
                        ELSE FindCommandFailed
                  [] OTHER -> id_result
            \* the Windows branch returns from inside the loop
            returns == app_os = "Windows" /\ kind = "found"
            attempts1 == IF returns THEN attempts ELSE attempts + 1
            exhausted == ~returns /\ Exhausted(attempts1, max_attempts)
            result2 == IF exhausted THEN FailedToFind(result1) ELSE result1
            sleeps1 == IF ~returns /\ ~exhausted THEN sleeps + 1 ELSE sleeps
            done == returns \/ exhausted \/ pid1 # None
            outcome == IF pid1 # None THEN "found" ELSE "not_found"
            summary ==
                [outcome |-> outcome, result |-> result2,
                 queries |-> queries + 1, sleeps |-> sleeps1,
                 expected |-> expected_to_be_running]
        IN  /\ pid' = pid1
            /\ running' = running1
            /\ CASE ~done ->
                      /\ attempts' = attempts1
                      /\ id_result' = result2
                      /\ queries' = queries + 1
                      /\ sleeps' = sleeps1
                      /\ UNCHANGED <<pc, caller, launcher_args, max_attempts,
                                     id_outcome, ret, launch_options,
                                     db_launcher_options>>
                 [] done /\ caller = "run_server" ->
                      /\ ReturnToCaller
                      /\ ret' = [RunServerResult(result2)
                                   EXCEPT !.identified = summary]
                      /\ IF Confirmed(result2)
                         THEN /\ launch_options' = launcher_args
                              /\ db_launcher_options' = launcher_args
                         ELSE UNCHANGED <<launch_options,
                                          db_launcher_options>>
                 [] done /\ caller = "check_server_running" ->
                      /\ pc' = "check"
                      /\ id_result' = result2
                      /\ id_outcome' = outcome
                      /\ queries' = queries + 1
                      /\ sleeps' = sleeps1
                      /\ attempts' = 0
                      /\ max_attempts' = 0
                      /\ UNCHANGED <<caller, launcher_args, ret,
                                     launch_options, db_launcher_options>>
                 [] OTHER ->
                      /\ ReturnToCaller
                      /\ ret' = [Return("identify_process_by_name",
                                        result2.status, result2.value,
                                        pid1 # None)
                                   EXCEPT !.identified = summary]
                      /\ UNCHANGED <<launch_options, db_launcher_options>>
    /\ UNCHANGED <<app_os, expected_to_be_running, last_cpu_check,
                   last_cpu_time, server_process, bot_options, osVars,
                   stop_succeeded, fresh, baseline_pid>>
    /\ UNCHANGED <<installVars, localVars, backupVars, mergeVars, sequenceVars>>

\* A direct call of identify_process_by_name.
IdentifyProcessByName ==
    /\ pc = "idle"
    /\ EnterIdentify("identify_process_by_name", expected_to_be_running)
    /\ UNCHANGED <<app_os, running, expected_to_be_running, last_cpu_check,
                   last_cpu_time, server_process, bot_options,
                   launch_options, db_launcher_options, osVars,
                   launcher_args, stop_succeeded, fresh, baseline_pid>>
    /\ UNCHANGED <<installVars, localVars, backupVars, mergeVars, sequenceVars>>

\* ---- run_server ----
RunServerNeverRefuses(is_running) == FALSE
RunServerRefuses(is_running) == is_running

run_server(args) ==
    /\ pc = "idle"
    /\ IF RunServerRefuses(running)
       THEN /\ ret' = Return("run_server", "error",
                             "Server is already running", FALSE)
            /\ UNCHANGED <<handleVars, osVars, callVars, stop_succeeded,
                           fresh, baseline_pid>>
       ELSE /\ Cardinality(Launched) < MaxLaunches
            /\ LET p == Cardinality(Launched) + 1
               IN  /\ expected_to_be_running' = TRUE
                   /\ bot_options' = args
                   /\ server_process' = p
                   /\ processes' = [processes EXCEPT ![p] = "starting"]
                   /\ launcher_args' = args
                   /\ EnterIdentify("run_server", TRUE)
                   /\ stop_succeeded' = FALSE
                   /\ fresh' = TRUE
                   /\ UNCHANGED <<app_os, running, last_cpu_check,
                                  last_cpu_time, launch_options,
                                  db_launcher_options, cpu_jiffies,
                                  cpu_clock, baseline_pid>>

RunServer ==
    /\ \E args \in LauncherArgs : run_server(args)
    /\ UNCHANGED <<installVars, localVars, backupVars, mergeVars, sequenceVars>>

\* A result of check_server_running, with what the call of
\* identify_process_by_name it made, if any, did.
Checked(status, message, value) ==
    [Return("check_server_running", status, message, value)
       EXCEPT !.identified =
           IF id_outcome = "none" THEN NoIdentify
           ELSE [outcome |-> id_outcome, result |-> id_result,
                 queries |-> queries, sleeps |-> sleeps,
                 expected |-> expected_to_be_running]]

\* ---- get_cpu_time_by_pid ----
\* round(n / d, 0) for d > 0, ties to the even neighbour as Python rounds.
RoundDiv(n, d) ==
    LET q == n \div d
        r == n % d
    IN  IF 2 * r < d THEN q
        ELSE IF 2 * r > d THEN q + 1
        ELSE IF q % 2 = 0 THEN q ELSE q + 1

\* round((cpu_delta / (time_delta * cores)) * 100, 2) in hundredths of a
\* percent, cpu_delta in jiffies and time_delta in seconds.
CpuUsage(jiffies_delta, time_delta) ==
    RoundDiv(jiffies_delta * 100 * 100,
             jiffies_per_second * time_delta * cpu_cores)

\* get_cpu_time_by_pid(p) on a live process that has used inc more jiffies
\* since it was last looked at; the clock has moved on by a second.
get_cpu_time_by_pid(p, inc) ==
    LET cpu_time == cpu_jiffies[p] + inc
        time_now == cpu_clock + 1
        has_baseline == last_cpu_check # None /\ last_cpu_time # None
        cpu_usage ==
            IF has_baseline
            THEN CpuUsage(cpu_time - last_cpu_time, time_now - last_cpu_check)
            ELSE 0
    IN  /\ cpu_clock < MaxTime
        /\ cpu_time <= MaxCpu
        /\ cpu_jiffies' = [cpu_jiffies EXCEPT ![p] = cpu_time]
        /\ cpu_clock' = time_now
        /\ last_cpu_check' = time_now
        /\ last_cpu_time' = cpu_time
        /\ ret' = [Checked("success", "none", TRUE)
                     EXCEPT !.cpu_usage = cpu_usage,
                            !.sample = IF fresh THEN "first" ELSE "later",
                            !.sampled_pid = p,
                            !.baseline_of =
                                IF has_baseline THEN baseline_pid ELSE None]
        /\ fresh' = FALSE
        /\ baseline_pid' = p

\* ---- check_server_running ----
NotRunning == Checked("success", "none", FALSE)

\* The same result, returned because the process of the stored pid was not
\* there any more when its statistics were read.
Vanished == [NotRunning EXCEPT !.sample = "vanished"]

\* The handle reset of check_server_running.
ResetHandle ==
    /\ running' = FALSE
    /\ pid' = None
    /\ last_cpu_check' = None
    /\ last_cpu_time' = None
    /\ fresh' = TRUE
    /\ baseline_pid' = None

\* What the PowerShell counter query can answer for the stored pid.
CounterOutcomes ==
    IF Alive(pid) THEN {"output", "error"}
    ELSE {"empty", "exit1", "error"}
CounterReadings == {0, 1250}

\* check_server_running from the test `if not pid` on, after the call of
\* identify_process_by_name if there was one.
CheckTail ==
    /\ ReturnToCaller
    /\ IF pid = None
       THEN /\ ret' = NotRunning
            /\ UNCHANGED <<pid, running, last_cpu_check, last_cpu_time,
                           fresh, baseline_pid, osVars>>
       ELSE IF app_os = "Windows"
       THEN \E out \in CounterOutcomes :
              CASE out = "output" ->
                     /\ \E u \in CounterReadings :
                          ret' = [Checked("success", "none", TRUE)
                                    EXCEPT !.cpu_usage = u]
                     /\ UNCHANGED <<pid, running, last_cpu_check,
                                    last_cpu_time, fresh, baseline_pid,
                                    osVars>>
                [] out \in {"empty", "exit1"} ->
                     /\ ret' = Vanished
                     /\ ResetHandle
                     /\ UNCHANGED osVars
                [] OTHER ->
                     /\ ret' = Checked("error",
                              "Can't identify server process using Get-Counter or WMI",
                              FALSE)
                     /\ UNCHANGED <<pid, running, last_cpu_check,
                                    last_cpu_time, fresh, baseline_pid,
                                    osVars>>
       ELSE IF server_process # None /\ processes[server_process] = "gone"
       THEN /\ ret' = Vanished
            /\ ResetHandle
            /\ UNCHANGED osVars
       ELSE IF ~Alive(pid)
       THEN \* get_cpu_time_by_pid: IOError, "Process appears not to be running"
            /\ ret' = Vanished
            /\ UNCHANGED <<pid, running, last_cpu_check, last_cpu_time,
                           fresh, baseline_pid, osVars>>
       ELSE /\ \E inc \in 0..MaxCpu : get_cpu_time_by_pid(pid, inc)
            /\ UNCHANGED <<pid, running, processes>>
    /\ UNCHANGED <<app_os, expected_to_be_running, server_process,
                   bot_options, launch_options, db_launcher_options,
                   stop_succeeded>>

\* A call of check_server_running: it locates the process first when the
\* handle holds no pid.
CheckServerRunning ==
    /\ pc = "idle"
    /\ IF pid = None
       THEN /\ EnterIdentify("check_server_running", expected_to_be_running)
            /\ UNCHANGED <<app_os, running, expected_to_be_running,
                           last_cpu_check, last_cpu_time, server_process,
                           bot_options, launch_options, db_launcher_options,
                           osVars, launcher_args, stop_succeeded, fresh,
                           baseline_pid>>
       ELSE CheckTail
    /\ UNCHANGED <<installVars, localVars, backupVars, mergeVars, sequenceVars>>

\* check_server_running goes on after identify_process_by_name returned.
CheckServerRunningResume ==
    /\ pc = "check"
    /\ CheckTail
    /\ UNCHANGED <<installVars, localVars, backupVars, mergeVars, sequenceVars>>

\* ---- terminate_process_by_pid ----
\* Stop-Process -Id pid -Force, kill -SIGKILL pid: the command succeeds
\* when the process exists.
terminate_process_by_pid(p) ==
    /\ pc = "idle"
    /\ IF Exists(p)
       THEN /\ processes' = [processes EXCEPT ![p] = "gone"]
            /\ cpu_jiffies' = [cpu_jiffies EXCEPT ![p] = 0]
            /\ running' = FALSE
            /\ ret' = Return("terminate_process_by_pid", "none", "none", TRUE)
            /\ stop_succeeded' = TRUE
       ELSE /\ ret' = Return("terminate_process_by_pid", "none", "none",
                             FALSE)
            /\ UNCHANGED <<processes, cpu_jiffies, running, stop_succeeded>>
    /\ UNCHANGED <<app_os, pid, expected_to_be_running, last_cpu_check,
                   last_cpu_time, server_process, bot_options,
                   launch_options, db_launcher_options, cpu_clock, callVars,
                   fresh, baseline_pid>>

\* The callers pass the pid of the handle.
TerminateProcessByPid ==
    /\ terminate_process_by_pid(pid)
    /\ UNCHANGED <<installVars, localVars, backupVars, mergeVars, sequenceVars>>

\* ---- the copy in palworld_admin/servermanager/local ----
\* run_server of the local copy: expected_to_be_running is set first, the
\* server is launched whatever the running flag says, and the Popen object
\* is not kept. identify_process_by_name has the same retry loop in both
\* copies; the launcher settings run_server keeps on success stand as
\* launch_options.
local_run_server(args) ==
    /\ pc = "idle"
    /\ Cardinality(Launched) < MaxLaunches
    /\ expected_to_be_running' = TRUE
    /\ processes' =
         [processes EXCEPT ![Cardinality(Launched) + 1] = "starting"]
    /\ launcher_args' = args
    /\ EnterIdentify("run_server", TRUE)
    /\ stop_succeeded' = FALSE
    /\ fresh' = TRUE
    /\ UNCHANGED <<app_os, running, last_cpu_check, last_cpu_time,
                   server_process, bot_options, launch_options,
                   db_launcher_options, use_get_counters, cpu_jiffies,
                   cpu_clock, baseline_pid>>

LocalRunServer ==
    /\ \E args \in LauncherArgs : local_run_server(args)
    /\ UNCHANGED <<installVars, backupVars, mergeVars, sequenceVars>>

\* What the PowerShell query of the local copy can answer: a line of
\* figures, no output, or a failed command (CalledProcessError).
LocalCounterOutcomes ==
    IF Alive(pid) THEN {"output", "error"} ELSE {"empty", "error"}

\* The handle reset of the local copy's check_server_running.
LocalResetHandle ==
    /\ ResetHandle
    /\ expected_to_be_running' = FALSE

\* What the Windows branch does with the answer of its query.
LocalCounterResult(out) ==
    CASE out = "output" ->
           /\ \E u \in CounterReadings :
                ret' = [Checked("success", "none", TRUE)
                          EXCEPT !.cpu_usage = u]
           /\ UNCHANGED <<pid, running, expected_to_be_running,
                          last_cpu_check, last_cpu_time, fresh,
                          baseline_pid>>
      [] out = "empty" ->
           /\ ret' = Vanished
           /\ LocalResetHandle
      [] OTHER ->
           /\ ret' = Checked("error",
                    "Can't identify server process using Get-Counter or WMI",
                    FALSE)
           /\ UNCHANGED <<pid, running, expected_to_be_running,
                          last_cpu_check, last_cpu_time, fresh,
                          baseline_pid>>

\* check_server_running of the local copy from the test `if not pid` on.
\* When the Get-Counter query fails the function switches to WMI and calls
\* itself again; the pid is still set, so the inner call goes straight to
\* its query.
LocalCheckTail ==
    /\ ReturnToCaller
    /\ IF pid = None
       THEN /\ ret' = NotRunning
            /\ UNCHANGED <<pid, running, expected_to_be_running,
                           last_cpu_check, last_cpu_time, fresh,
                           baseline_pid, use_get_counters, osVars>>
       ELSE IF app_os = "Windows"
       THEN /\ \E out \in LocalCounterOutcomes :
                 IF out = "error" /\ use_get_counters
                 THEN /\ use_get_counters' = FALSE
                      /\ \E again \in LocalCounterOutcomes :
                           LocalCounterResult(again)
                 ELSE /\ LocalCounterResult(out)
                      /\ UNCHANGED use_get_counters
            /\ UNCHANGED osVars
       ELSE IF ~Alive(pid)
       THEN \* get_cpu_time_by_pid: IOError, "Process appears not to be running"
            /\ ret' = Vanished
            /\ UNCHANGED <<pid, running, expected_to_be_running,
                           last_cpu_check, last_cpu_time, fresh,
                           baseline_pid, use_get_counters, osVars>>
       ELSE /\ \E inc \in 0..MaxCpu : get_cpu_time_by_pid(pid, inc)
            /\ UNCHANGED <<pid, running, expected_to_be_running,
                           use_get_counters, processes>>
    /\ UNCHANGED <<app_os, server_process, bot_options, launch_options,
                   db_launcher_options, stop_succeeded>>

\* A call of check_server_running of the local copy.
LocalCheckServerRunning ==
    /\ pc = "idle"
    /\ IF pid = None
       THEN /\ EnterIdentify("check_server_running", expected_to_be_running)
            /\ UNCHANGED <<app_os, running, expected_to_be_running,
                           last_cpu_check, last_cpu_time, server_process,
                           bot_options, launch_options, db_launcher_options,
                           use_get_counters, osVars, launcher_args,
                           stop_succeeded, fresh, baseline_pid>>
       ELSE LocalCheckTail
    /\ UNCHANGED <<installVars, backupVars, mergeVars, sequenceVars>>

\* It goes on after identify_process_by_name returned.
LocalCheckServerRunningResume ==
    /\ pc = "check"
    /\ LocalCheckTail
    /\ UNCHANGED <<installVars, backupVars, mergeVars, sequenceVars>>

\* ---- first_run ----
\* The launcher_args first_run starts the server with.
FirstRunArgs == "first_run"

\* The dict first_run passes to update_palworld_settings_ini.
AdminPassword ==
    <<"A", "d", "m", "i", "n", "P", "a", "s", "s", "w", "o", "r", "d">>
bShowPlayerList ==
    <<"b", "S", "h", "o", "w", "P", "l", "a", "y", "e", "r", "L", "i", "s", "t">>
FirstRunSettings ==
    << <<RCONEnabled, <<"T", "r", "u", "e">>>>,
       <<AdminPassword, <<"\"", "a", "d", "m", "i", "n", "\"">>>>,
       <<bShowPlayerList, <<"F", "a", "l", "s", "e">>>> >>

\* The file at default_ini_path, as the game ships it.
DefaultSettings ==
    <<HeaderLine,
      DirectiveLine(<<RCONEnabled \o <<"=", "F", "a", "l", "s", "e">>,
                      AdminPassword \o <<"=", "\"", "\"">>>>,
                    <<",">>, <<>>)>>

\* How copy_default_settings may end.
CopyResults ==
    { [status |-> "success",
       message |-> "Default settings copied to the server"],
      [status |-> "error",
       message |-> "Error copying default settings to the server"],
      [status |-> "error", message |-> "Default settings file not found"] }

\* The call of first_run: expected_to_be_running is set.
FirstRun ==
    /\ pc = "idle"
    /\ first_run_call.at = "none"
    /\ expected_to_be_running' = TRUE
    /\ first_run_call' = [first_run_call EXCEPT !.at = "start"]
    /\ UNCHANGED <<app_os, pid, running, last_cpu_check, last_cpu_time,
                   server_process, bot_options, launch_options,
                   db_launcher_options, osVars, callVars, ghostVars, threads>>
    /\ UNCHANGED <<installVars, localVars, backupVars, mergeVars>>

\* run_server(launcher_args); its result is not looked at.
FirstRunStart ==
    /\ first_run_call.at = "start"
    /\ run_server(FirstRunArgs)
    /\ first_run_call' =
         [first_run_call EXCEPT !.at = "run_server",
                                !.steps = Append(@, "start")]
    /\ UNCHANGED <<installVars, localVars, backupVars, mergeVars, threads>>

\* run_server has returned: time.sleep(3), then
\* terminate_process_by_pid(app_settings.localserver.pid).
FirstRunStop ==
    /\ first_run_call.at = "run_server"
    /\ pc = "idle"
    /\ terminate_process_by_pid(pid)
    /\ first_run_call' =
         [first_run_call EXCEPT !.at = "terminated",
                                !.start = ret.status,
                                !.steps = @ \o <<"settle", "terminate">>,
                                !.terminated = ret'.value]
    /\ UNCHANGED <<installVars, localVars, backupVars, mergeVars, threads>>

\* first_run marks the handle as stopped once the server is terminated.
MarkStoppedKeepsExpectation ==
    /\ running' = FALSE
    /\ UNCHANGED expected_to_be_running
MarkStopped ==
    /\ running' = FALSE
    /\ expected_to_be_running' = FALSE

\* The branch on terminated: copy_default_settings, the handle marked as
\* stopped, and the dict of the settings to change.
FirstRunCopy ==
    /\ first_run_call.at = "terminated"
    /\ IF first_run_call.terminated
       THEN \E copied \in CopyResults :
              /\ MarkStopped
              /\ IF copied.status = "success"
                 THEN /\ ini_file' = DefaultSettings
                      /\ ini_original' = DefaultSettings
                      /\ settings_to_change' = FirstRunSettings
                      /\ first_run_call' =
                           [first_run_call EXCEPT
                              !.at = "copied",
                              !.steps = Append(@, "copy"),
                              !.copied = copied.status]
                 ELSE /\ first_run_call' =
                           [first_run_call EXCEPT
                              !.at = "done",
                              !.steps = Append(@, "copy"),
                              !.copied = copied.status,
                              !.result =
                                 [status |-> "error",
                                  message |-> "Error copying default settings to the server"]]
                      /\ UNCHANGED <<ini_file, ini_original,
                                     settings_to_change>>
       ELSE /\ first_run_call' =
                 [first_run_call EXCEPT
                    !.at = "done",
                    !.result = [status |-> "error",
                                message |-> "Error terminating server"]]
            /\ UNCHANGED <<running, expected_to_be_running, ini_file,
                           ini_original, settings_to_change>>
    /\ UNCHANGED <<app_os, pid, last_cpu_check, last_cpu_time,
                   server_process, bot_options, launch_options,
                   db_launcher_options, osVars, callVars, ghostVars, threads>>
    /\ UNCHANGED <<written_settings, public_ip, merge_calls, merge_result>>
    /\ UNCHANGED <<installVars, localVars, backupVars>>

\* update_palworld_settings_ini(settings_to_change) and the result of
\* first_run.
FirstRunMerge ==
    /\ first_run_call.at = "copied"
    /\ update_palworld_settings_ini
    /\ first_run_call' =
         [first_run_call EXCEPT
            !.at = "done",
            !.steps = Append(@, "merge"),
            !.rcon_enabled = merge_result'.status,
            !.result =
               IF merge_result'.status = "success"
               THEN [status |-> "success",
                     message |-> "Server installed successfully"]
               ELSE [status |-> "error",
                     message |-> "Error enabling RCON on the server"]]
    /\ UNCHANGED <<handleVars, osVars, callVars, ghostVars, threads>>
    /\ UNCHANGED <<installVars, localVars, backupVars>>

\* ---- install_server ----
\* How install_steamcmd and install_palserver may end.
InstallStatuses == {"success", "error"}

\* What check_palworld_install answers: True when the settings file is
\* there and not empty, False when it is not, and an error text when the
\* check itself raised.
SavedDataValues(file) ==
    { IF file # <<>> THEN "True" ELSE "False", "error" }

\* result["status"] after the test of the two installation results.
InstalledStatus(steamcmd, palserver) ==
    IF steamcmd = "success" /\ palserver = "success" THEN "success"
    ELSE "missing"

\* install_server up to its call of first_run, or to its return when the
\* saved data is there: install_steamcmd unless steamcmd_installed is set,
\* install_palserver, check_palworld_install. The installers are taken by
\* their results.
InstallServer ==
    /\ pc = "idle"
    /\ install_call.at = "none"
    /\ first_run_call.at = "none"
    /\ \E steamcmd_installed \in BOOLEAN, steamcmd \in InstallStatuses,
          palserver \in InstallStatuses, value \in SavedDataValues(ini_file) :
         /\ steamcmd_installed => steamcmd = "success"
         /\ install_call' =
              [install_call EXCEPT
                 !.at = IF value = "False" THEN "first_run" ELSE "done",
                 !.steps = (IF steamcmd_installed THEN <<>>
                            ELSE <<"steamcmd">>) \o <<"palserver", "check">>,
                 !.steamcmd = steamcmd,
                 !.palserver = palserver,
                 !.saved_data = value,
                 !.status = InstalledStatus(steamcmd, palserver)]
    /\ UNCHANGED <<handleVars, localVars, osVars, callVars, ghostVars,
                   sequenceVars, backupVars, mergeVars>>

\* install_server calls first_run.
InstallFirstRun ==
    /\ install_call.at = "first_run"
    /\ FirstRun

\* first_run has returned to install_server, which returns.
InstallServerReturns ==
    /\ install_call.at = "first_run"
    /\ first_run_call.at = "done"
    /\ install_call' =
         [install_call EXCEPT
            !.at = "done",
            !.steps = Append(@, "first_run"),
            !.first_run = first_run_call.result.status,
            !.status = IF first_run_call.result.status = "success"
                       THEN "success" ELSE @]
    /\ UNCHANGED <<handleVars, localVars, osVars, callVars, ghostVars,
                   sequenceVars, backupVars, mergeVars>>

\* ---- lifecycle calls made by several threads at once ----
\* The run_server call of thread t is in flight: its process is launched
\* and its identify_process_by_name has not returned yet.
InFlight(t) == threads[t].op = "run_server" /\ threads[t].pc = "identify"
OthersInFlight(t) == \E u \in Threads \ {t} : InFlight(u)

\* Thread t calls run_server(args): the test of the running flag, the
\* launch, and the entry of identify_process_by_name.
ThreadRunServer(t, args) ==
    /\ threads[t].pc = "idle"
    /\ IF RunServerRefuses(running)
       THEN /\ threads' =
                 [threads EXCEPT ![t] =
                    [NoCall EXCEPT
                       !.op = "run_server",
                       !.ret = [status |-> "error",
                                message |-> "Server is already running"]]]
            /\ UNCHANGED <<handleVars, osVars>>
       ELSE /\ Cardinality(Launched) < MaxLaunches
            /\ LET p == Cardinality(Launched) + 1
               IN  /\ expected_to_be_running' = TRUE
                   /\ bot_options' = args
                   /\ server_process' = p
                   /\ processes' = [processes EXCEPT ![p] = "starting"]
                   /\ pid' = None
                   /\ threads' =
                        [threads EXCEPT ![t] =
                           [NoCall EXCEPT
                              !.pc = "identify",
                              !.op = "run_server",
                              !.args = args,
                              !.max_attempts = MaxAttempts(TRUE)]]
                   /\ UNCHANGED <<app_os, running, last_cpu_check,
                                  last_cpu_time, launch_options,
                                  db_launcher_options, cpu_jiffies,
                                  cpu_clock>>
    /\ UNCHANGED <<callVars, ghostVars, first_run_call>>

\* What run_server of thread t does with the result of
\* identify_process_by_name, and its return.
ThreadRunServerReturns(t, identified) ==
    /\ threads' =
         [threads EXCEPT ![t] =
            [NoCall EXCEPT
                      !.op = "run_server",
                      !.ret = [status |-> RunServerResult(identified).status,
                               message |->
                                 RunServerResult(identified).message]]]
    /\ IF Confirmed(identified)
       THEN /\ launch_options' = threads[t].args
            /\ db_launcher_options' = threads[t].args
       ELSE UNCHANGED <<launch_options, db_launcher_options>>

\* One test of `while not app_settings.localserver.pid` by thread t and,
\* when the pid is not set, one pass of the loop; the pid is the handle's,
\* which another thread may have set or cleared since the last pass.
ThreadIdentifyStep(t) ==
    /\ threads[t].pc = "identify"
    /\ IF pid # None
       THEN /\ ThreadRunServerReturns(t, threads[t].result)
            /\ UNCHANGED <<pid, running>>
       ELSE \E o \in FindOutcomes :
              LET kind == o[1]
                  pid1 == IF kind = "found" THEN o[2] ELSE None
                  running1 ==
                      CASE kind = "found" -> TRUE
                        [] kind = "empty_match" -> FALSE
                        [] OTHER -> running
                  result1 ==
                      CASE kind = "found" -> Found
                        [] kind = "empty_match" -> NoMatch
                        [] kind = "fails" ->
                              IF app_os = "Windows" THEN ProcessNotFound
                              ELSE FindCommandFailed
                        [] OTHER -> threads[t].result
                  returns == app_os = "Windows" /\ kind = "found"
                  attempts1 == IF returns THEN threads[t].attempts
                               ELSE threads[t].attempts + 1
                  exhausted ==
                      ~returns /\ Exhausted(attempts1, threads[t].max_attempts)
                  result2 ==
                      IF exhausted THEN FailedToFind(result1) ELSE result1
              IN  /\ pid' = pid1
                  /\ running' = running1
                  /\ IF returns \/ exhausted
                     THEN ThreadRunServerReturns(t, result2)
                     ELSE /\ threads' =
                               [threads EXCEPT ![t] =
                                  [@ EXCEPT !.attempts = attempts1,
                                            !.result = result2]]
                          /\ UNCHANGED <<launch_options, db_launcher_options>>
    /\ UNCHANGED <<app_os, expected_to_be_running, last_cpu_check,
                   last_cpu_time, server_process, bot_options, osVars,
                   callVars, ghostVars, first_run_call>>

\* Thread t calls terminate_process_by_pid with the pid of the handle.
ThreadTerminate(t) ==
    /\ threads[t].pc = "idle"
    /\ terminate_process_by_pid(pid)
    /\ threads' =
         [threads EXCEPT ![t] =
            [NoCall EXCEPT
               !.op = "terminate_process_by_pid",
               !.ret = [status |-> IF ret'.value THEN "success" ELSE "error",
                        message |-> "none"]]]
    /\ UNCHANGED first_run_call

ThreadsRunServer ==
    /\ \E t \in Threads, args \in LauncherArgs : ThreadRunServer(t, args)
    /\ UNCHANGED <<installVars, localVars, backupVars, mergeVars>>
ThreadsIdentifyStep ==
    /\ \E t \in Threads : ThreadIdentifyStep(t)
    /\ UNCHANGED <<installVars, localVars, backupVars, mergeVars>>
ThreadsTerminate ==
    /\ \E t \in Threads : ThreadTerminate(t)
    /\ UNCHANGED <<installVars, localVars, backupVars, mergeVars>>

ProcIdle ==
    /\ app_os = "Linux"
    /\ pid = None
    /\ running = FALSE
    /\ expected_to_be_running = FALSE
    /\ last_cpu_check = None
    /\ last_cpu_time = None
    /\ server_process = None
    /\ bot_options = NoOptions
    /\ launch_options = NoOptions
    /\ db_launcher_options = NoOptions
    /\ use_get_counters = TRUE
    /\ processes = [p \in Pids |-> "none"]
    /\ cpu_jiffies = [p \in Pids |-> 0]
    /\ cpu_clock = 0
    /\ pc = "idle"
    /\ caller = "none"
    /\ launcher_args = NoOptions
    /\ attempts = 0
    /\ max_attempts = 0
    /\ id_result = EmptyResult
    /\ id_outcome = "none"
    /\ queries = 0
    /\ sleeps = 0
    /\ ret = NoReturn
    /\ stop_succeeded = FALSE
    /\ fresh = TRUE
    /\ baseline_pid = None
    /\ first_run_call = NoFirstRun
    /\ threads = NoThreads
    /\ install_call = NoInstall

(***************************************************************************)
(* Specifications: one per component, the other components at rest.        *)
(***************************************************************************)
BackupIdle ==
    /\ backup_path_exists = FALSE
    /\ backup_dirs = {}
    /\ backup_saved = {}
    /\ backup_files = {}
    /\ now = 0
    /\ backup_calls = 0
    /\ backup_last =
         [ query |-> <<>>, folder |-> NoName,
           created |-> FALSE, verified |-> FALSE, mismatch |-> FALSE,
           before_prune |-> {}, pruned |-> FALSE,
           status |-> "none", message |-> "" ]

InitBackup == BackupInit /\ MergeIdle /\ ProcIdle
BackupNext == BackupServer \/ ClockTick
SpecBackup == InitBackup /\ [][BackupNext]_vars

\* Backups made with the copy in palworld_admin/servermanager/local.
InitLocalBackup == BackupInit /\ MergeIdle /\ ProcIdle
LocalBackupNext == LocalBackupServer \/ ClockTick
SpecLocalBackup == InitLocalBackup /\ [][LocalBackupNext]_vars

InitMerge == MergeInit /\ BackupIdle /\ ProcIdle
MergeNext == UpdatePalworldSettingsIni
SpecMerge == InitMerge /\ [][MergeNext]_vars

\* Calls of update_palworld_settings_ini, some of them stopped in the
\* write-back.
InitInterrupt == MergeInit /\ BackupIdle /\ ProcIdle
InterruptNext == UpdatePalworldSettingsIni \/ UpdateInterrupted
SpecInterrupt == InitInterrupt /\ [][InterruptNext]_vars

\* first_run on a fresh installation: no server was started yet, the
\* settings file is not there, and the public address can be found or not.
InitFirstRun ==
    /\ ProcInit
    /\ BackupIdle
    /\ ini_file = <<>>
    /\ ini_original = <<>>
    /\ written_settings = <<>>
    /\ settings_to_change = <<>>
    /\ public_ip \in {<<>>, PublicAddress}
    /\ merge_calls = 0
    /\ merge_result = [status |-> "none", message |-> ""]
FirstRunNext ==
    \/ FirstRun
    \/ FirstRunStart
    \/ IdentifyStep
    \/ FirstRunStop
    \/ FirstRunCopy
    \/ FirstRunMerge
    \/ ProcessAppears
    \/ ProcessExits
SpecFirstRun == InitFirstRun /\ [][FirstRunNext]_vars

\* install_server on a machine where the settings file is there or not.
InitInstall ==
    /\ ProcInit
    /\ BackupIdle
    /\ ini_file \in {<<>>, DefaultSettings}
    /\ ini_original = ini_file
    /\ written_settings = <<>>
    /\ settings_to_change = <<>>
    /\ public_ip \in {<<>>, PublicAddress}
    /\ merge_calls = 0
    /\ merge_result = [status |-> "none", message |-> ""]
InstallNext ==
    \/ InstallServer
    \/ InstallFirstRun
    \/ FirstRunStart
    \/ IdentifyStep
    \/ FirstRunStop
    \/ FirstRunCopy
    \/ FirstRunMerge
    \/ InstallServerReturns
    \/ ProcessAppears
    \/ ProcessExits
SpecInstall == InitInstall /\ [][InstallNext]_vars

\* Two threads that call run_server and terminate_process_by_pid on the
\* same handle, with nothing to keep the calls apart.
InitOverlap == ProcInit /\ BackupIdle /\ MergeIdle
OverlapNext ==
    \/ ThreadsRunServer
    \/ ThreadsIdentifyStep
    \/ ThreadsTerminate
    \/ ProcessAppears
    \/ ProcessExits
SpecOverlap == InitOverlap /\ [][OverlapNext]_vars

Init == ProcInit /\ BackupIdle /\ MergeIdle
Next ==
    \/ RunServer
    \/ IdentifyProcessByName
    \/ IdentifyStep
    \/ CheckServerRunning
    \/ CheckServerRunningResume
    \/ TerminateProcessByPid
    \/ ProcessAppears
    \/ ProcessExits
Spec == Init /\ [][Next]_vars

\* The calls that reach identify_process_by_name directly or from run_server,
\* with the stops that let the server be started again. The thread that is
\* in the retry loop goes on running: time.sleep(1) returns and the next
\* pass is made.
LiveNext ==
    \/ RunServer
    \/ IdentifyProcessByName
    \/ IdentifyStep
    \/ TerminateProcessByPid
    \/ ProcessAppears
    \/ ProcessExits
SpecLive == Init /\ [][LiveNext]_vars /\ WF_vars(IdentifyStep)

\* The lifecycle calls of the copy in palworld_admin/servermanager/local.
InitLocal == ProcInit /\ BackupIdle /\ MergeIdle
LocalNext ==
    \/ LocalRunServer
    \/ IdentifyProcessByName
    \/ IdentifyStep
    \/ LocalCheckServerRunning
    \/ LocalCheckServerRunningResume
    \/ TerminateProcessByPid
    \/ ProcessAppears
    \/ ProcessExits
SpecLocal == InitLocal /\ [][LocalNext]_vars

(***************************************************************************)
(* Claims about backup_server.                                             *)
(***************************************************************************)
Tagged(dirs) == { f \in dirs : Find(f, AutoBackupTag) # -1 }
Min(a, b) == IF a < b THEN a ELSE b

\* C1: when the prune step of backup_server finishes, for a retain count
\* N > 0, the number of folders whose name contains AutoBackup is
\* min(N, their number before pruning), and the survivors are the
\* lexicographically largest names.
C1_RetentionBound ==
    backup_last.pruned =>
        LET N == backup_last.query.backup_count
            before == Tagged(backup_last.before_prune)
            after == Tagged(backup_dirs)
        IN  /\ N > 0
            /\ Cardinality(after) = Min(N, Cardinality(before))
            /\ after \subseteq before
            /\ \A kept \in after, gone \in before \ after : StrLess(gone, kept)

\* A prune step that removed two folders at once.
C1_Witness ==
    /\ backup_last.pruned
    /\ Cardinality(Tagged(backup_last.before_prune) \ backup_dirs) >= 2

\* C2: no call of backup_server, of any kind and with any retain count,
\* deletes a folder whose name lacks the AutoBackup tag, nor its copied
\* data: manual, launch and first-run records exist in every later state.
C2_UntaggedNeverDeleted ==
    [][ \A f \in backup_dirs :
          Find(f, AutoBackupTag) = -1 =>
            /\ f \in backup_dirs'
            /\ f \in backup_saved => f \in backup_saved' ]_vars

\* A call pruned tagged folders while manual, launch and first-run records
\* were in the backup root.
C2_Witness ==
    /\ backup_last.pruned
    /\ backup_last.before_prune # backup_dirs
    /\ \E m, l \in backup_saved :
         /\ Find(m, LaunchBackupTag) # -1
         /\ Len(l) = Len(Strftime(0))

\* C3 (as claimed): when verification finds the listing of the copy to
\* differ from the listing of the source, the call returns an error and no
\* folder created by the call remains under the backup root, neither the
\* copied data nor its timestamped parent folder.
C3_NoResidualFolder ==
    backup_last.mismatch =>
        /\ backup_last.status = "error"
        /\ backup_last.folder \notin backup_saved
        /\ backup_last.created => backup_last.folder \notin backup_dirs

\* C18: with a retain count less than or equal to 0, backup_server deletes
\* no previously existing backup folder, nor its copied data, whatever the
\* number of AutoBackup-tagged folders: across any sequence of such calls
\* the set of existing records only grows.
C18_NoPruneWithoutRetainCount ==
    [][ ( /\ backup_calls' = backup_calls + 1
          /\ "backup_count" \in DOMAIN backup_last'.query
          /\ backup_last'.query.backup_count <= 0 )
        => /\ backup_dirs \subseteq backup_dirs'
           /\ backup_saved \subseteq backup_saved' ]_vars

\* A verified backup with a retain count of 0 or less that left more than
\* one AutoBackup-tagged folder behind, the earlier ones among them.
C18_Witness ==
    /\ backup_last.status = "success"
    /\ "backup_count" \in DOMAIN backup_last.query
    /\ backup_last.query.backup_count <= 0
    /\ InitialFolders \subseteq backup_dirs
    /\ Cardinality(Tagged(backup_dirs)) > Cardinality(InitialFolders)

\* C27 (as claimed): in the palworld_admin/servermanager/local copy of
\* backup_server, for every content of the backup root and every retain
\* count N > 0, every folder the prune step deletes contains AutoBackup in
\* its name and exactly the N lexicographically largest AutoBackup folders
\* survive.
C27_LocalPruneKeepsUntagged ==
    backup_last.pruned =>
        LET N == backup_last.query.backup_count
            before == Tagged(backup_last.before_prune)
            after == Tagged(backup_dirs)
        IN  /\ \A f \in backup_last.before_prune \ backup_dirs :
                 Find(f, AutoBackupTag) # -1
            /\ Cardinality(after) = Min(N, Cardinality(before))
            /\ \A kept \in after, gone \in before \ after : StrLess(gone, kept)

\* The suffix the claim gives for each kind of backup.
SuffixOfKind(kind) ==
    CASE kind = "manual" -> <<>>
      [] kind = "launch" ->
           <<"-", "L", "a", "u", "n", "c", "h", "B", "a", "c", "k", "u", "p">>
      [] kind = "firstrun" ->
           <<"-", "F", "i", "r", "s", "t", "R", "u", "n",
             "B", "a", "c", "k", "u", "p">>
      [] kind = "auto" ->
           <<"-", "A", "u", "t", "o", "B", "a", "c", "k", "u", "p">>

\* C34: the backup folder name is the timestamp followed by a suffix chosen
\* by kind: none for manual, -LaunchBackup for launch, -FirstRunBackup for
\* firstrun and -AutoBackup for auto; only a request of the auto kind
\* produces a folder that carries the AutoBackup tag.
C34_FolderNameByKind ==
    [][ ( /\ backup_calls' = backup_calls + 1
          /\ "backup_type" \in DOMAIN backup_last'.query )
        => LET kind == backup_last'.query.backup_type
               folder == backup_last'.folder
           IN  /\ folder = Strftime(now) \o SuffixOfKind(kind)
               /\ backup_last'.created => folder \in backup_dirs' \cup
                                            backup_last'.before_prune
               /\ (Find(folder, AutoBackupTag) # -1) <=> (kind = "auto") ]_vars

\* A first-run backup made after the clock moved on.
C34_Witness ==
    /\ backup_last.created
    /\ backup_last.query.backup_type = "firstrun"
    /\ backup_last.folder = Strftime(1) \o SuffixOfKind("firstrun")
    /\ backup_last.folder \in backup_saved
    /\ Find(backup_last.folder, AutoBackupTag) = -1

\* C35 (as claimed): a backup_server call that ends with an error
\* (verification mismatch or copy failure) deletes no backup record that
\* existed before the call: the prune step removes folders only in calls
\* whose own backup was created and verified.
C35_ErrorCallDeletesNothing ==
    [][ ( /\ backup_calls' = backup_calls + 1
          /\ backup_last'.status = "error" )
        => /\ backup_dirs \subseteq backup_dirs'
           /\ backup_saved \subseteq backup_saved' ]_vars

(***************************************************************************)
(* Claims about update_palworld_settings_ini.                              *)
(***************************************************************************)
\* The directive lines of a file, and the entries of a directive line as
\* the quote-aware split gives them.
DirectiveLines(file) ==
    { i \in 1..Len(file) : StartsWith(file[i], OptionSettingsMarker) }
SettingsString(line) ==
    SubSeq(line, Find(line, <<"(">>) + 2, RFind(line, <<")">>))
EntriesOf(line) == split_settings_string(SettingsString(line))
KeyOf(entry) == Strip(Partition(entry, <<"=">>)[1])
ValueOf(entry) == Partition(entry, <<"=">>)[3]

\* A value without double quotes, or enclosed in one pair of them.
PlainOrEnclosed(v) ==
    \/ CountQuotes(v) = 0
    \/ Len(v) >= 2 /\ v[1] = DQ /\ v[Len(v)] = DQ /\ CountQuotes(v) = 2

\* A file with one directive line, whose span is not inverted and whose
\* entries have plain or enclosed values.
WellFormedDocument(file) ==
    /\ Cardinality(DirectiveLines(file)) = 1
    /\ \A i \in DirectiveLines(file) :
         /\ RFind(file[i], <<")">>) > Find(file[i], <<"(">>) + 1
         /\ \A j \in 1..Len(EntriesOf(file[i])) :
              PlainOrEnclosed(ValueOf(EntriesOf(file[i])[j]))

\* C4 (as claimed): for every settings document with a well-formed
\* directive line and every update set U, applying
\* update_palworld_settings_ini with U twice in a row yields the same
\* document as applying it once.
C4_IdempotentMerge ==
    [][ ( /\ merge_calls = 1
          /\ merge_result.status = "success"
          /\ WellFormedDocument(ini_original)
          /\ merge_calls' = 2 )
        => ini_file' = ini_file ]_vars

HasSpecial(v) == \E i \in 1..Len(v) : v[i] \in {" ", ",", "(", ")"}

\* C5 (as claimed): for every key of the directive line that is not in the
\* update set, the text of its value, quoting included, is byte-identical
\* in the merged directive line, also when the value is unquoted and holds
\* a space, a comma or a parenthesis.
C5_UnknownKeyByteIdentical ==
    [][ ( merge_calls' = merge_calls + 1 /\ merge_result'.status = "success" )
        => \A i \in DirectiveLines(ini_file) :
             \A j \in 1..Len(EntriesOf(ini_file[i])) :
               LET entry == EntriesOf(ini_file[i])[j]
               IN  KeyOf(entry) \notin DictKeys(settings_to_change')
                     => /\ j <= Len(written_settings')
                        /\ written_settings'[j]
                             = KeyOf(entry) \o <<"=">> \o ValueOf(entry) ]_vars

\* C5 (amended): for every key of the directive line that is not in the
\* update set, the merged directive line holds, at the same position, the
\* key and its value: byte-identical when the value starts and ends with a
\* double quote or holds no space, comma or parenthesis, and wrapped in
\* one pair of double quotes otherwise.
C5_UnknownKeyRequoted ==
    [][ ( merge_calls' = merge_calls + 1 /\ merge_result'.status = "success" )
        => \A i \in DirectiveLines(ini_file) :
             \A j \in 1..Len(EntriesOf(ini_file[i])) :
               LET entry == EntriesOf(ini_file[i])[j]
                   value == ValueOf(entry)
                   kept == (Len(value) >= 1 /\ value[1] = DQ
                              /\ value[Len(value)] = DQ)
                             \/ ~HasSpecial(value)
               IN  KeyOf(entry) \notin DictKeys(settings_to_change')
                     => /\ j <= Len(written_settings')
                        /\ written_settings'[j]
                             = KeyOf(entry) \o <<"=">>
                                 \o (IF kept THEN value
                                     ELSE <<DQ>> \o value \o <<DQ>>)
                        /\ \A i2 \in DirectiveLines(ini_file') :
                             SettingsString(ini_file'[i2])
                               = Join(written_settings', <<",">>) ]_vars

\* A merge that kept a quoted value of a key it does not update and
\* wrapped an unquoted one that holds a space.
C5_Witness ==
    /\ merge_calls = 1
    /\ merge_result.status = "success"
    /\ \E i \in DirectiveLines(ini_original) :
         \E j, k \in 1..Len(EntriesOf(ini_original[i])) :
           LET e1 == EntriesOf(ini_original[i])[j]
               e2 == EntriesOf(ini_original[i])[k]
           IN  /\ KeyOf(e1) \notin DictKeys(settings_to_change)
               /\ KeyOf(e2) \notin DictKeys(settings_to_change)
               /\ ValueOf(e1) = <<"x", " ", "y">>
               /\ ValueOf(e2) = <<DQ, "x", ",", "y", DQ>>
               /\ written_settings[j] = KeyOf(e1) \o <<"=", DQ, "x", " ", "y", DQ>>
               /\ written_settings[k] = e2

\* A step that is one call of update_palworld_settings_ini.
MergeCall == merge_calls' = merge_calls + 1

HasComma(v) == \E i \in 1..Len(v) : v[i] = ","

\* A value wrapped in double quotes: as it is when it already starts and
\* ends with one, inside a new pair otherwise.
Wrapped(v) ==
    IF Len(v) >= 1 /\ v[1] = DQ /\ v[Len(v)] = DQ THEN v
    ELSE <<DQ>> \o v \o <<DQ>>

\* C13 (as claimed): for every update whose value contains a comma, the
\* token written for that key in the merged directive line has its value
\* wrapped in double quotes, and the quote-aware split of the merged line
\* yields that token as a single entry.
C13_CommaValueQuoted ==
    [][ ( /\ MergeCall
          /\ merge_result'.status = "success"
          /\ WellFormedDocument(ini_file) )
        => \A i \in DirectiveLines(ini_file') :
             \A n \in 1..Len(settings_to_change') :
               LET key == settings_to_change'[n][1]
                   value == settings_to_change'[n][2]
                   token == key \o <<"=">> \o Wrapped(value)
                   entries == EntriesOf(ini_file'[i])
               IN  HasComma(value)
                     => \E j \in 1..Len(entries) : entries[j] = token ]_vars

\* The text of a directive line from its last closing parenthesis on.
AfterClosing(line) == SubSeq(line, RFind(line, <<")">>) + 2, Len(line))
KeysOf(line) ==
    { KeyOf(EntriesOf(line)[j]) : j \in 1..Len(EntriesOf(line)) }

\* C14 (as claimed): merging an update of one existing key changes only
\* that key's value: the call succeeds, the merged directive line holds the
\* entries of the old one in their order, with the new value for the
\* updated key and every other entry as it was, no key is added, and the
\* text after the closing parenthesis is kept; merging {A: 2} into
\* OptionSettings=(A=1,B="x,y"), yields OptionSettings=(A=2,B="x,y"),
C14_OnlyThatKeyChanges ==
    [][ ( /\ MergeCall
          /\ public_ip # <<>>
          /\ WellFormedDocument(ini_file)
          /\ Len(settings_to_change) = 1
          /\ \A i \in DirectiveLines(ini_file) :
               settings_to_change[1][1] \in KeysOf(ini_file[i]) )
        => /\ merge_result'.status = "success"
           /\ Len(ini_file') = Len(ini_file)
           /\ \A i \in DirectiveLines(ini_file) :
                LET old == EntriesOf(ini_file[i])
                    new == EntriesOf(ini_file'[i])
                IN  /\ Len(new) = Len(old)
                    /\ \A j \in 1..Len(old) :
                         new[j] =
                           IF KeyOf(old[j]) = settings_to_change[1][1]
                           THEN KeyOf(old[j]) \o <<"=">>
                                  \o settings_to_change[1][2]
                           ELSE old[j]
                    /\ AfterClosing(ini_file'[i]) = AfterClosing(ini_file[i])
       ]_vars

\* C15 (as claimed): if no line of the settings document begins with the
\* directive marker OptionSettings=, update_palworld_settings_ini fails
\* with an error; it does not report success.
C15_NoDirectiveIsAnError ==
    [][ ( MergeCall /\ DirectiveLines(ini_file) = {} )
        => merge_result'.status = "error" ]_vars

\* The last closing parenthesis of the line is before, or at, the position
\* right after its first opening parenthesis.
InvertedSpan(line) ==
    RFind(line, <<")">>) <= Find(line, <<"(">>) + 1

\* C16: if the directive line's parenthesized span is inverted,
\* update_palworld_settings_ini does not report success and the settings
\* file is left exactly as it was before the call; the call returns an
\* error result whenever it gets as far as reading the file, that is when
\* an address was found and the update set holds RCONEnabled.
C16_InvertedSpanIsAnError ==
    [][ ( /\ MergeCall
          /\ \E i \in DirectiveLines(ini_file) : InvertedSpan(ini_file[i]) )
        => /\ ini_file' = ini_file
           /\ merge_result'.status # "success"
           /\ ( public_ip # <<>>
                  /\ RCONEnabled \in DictKeys(settings_to_change) )
                => /\ merge_result'.status = "error"
                   /\ merge_result'.message =
                        "Error reading settings file, settings_string_end is less than settings_string_start"
       ]_vars

\* A call that met a directive line with nothing between its parentheses,
\* returned the error of the span test and left the file as it was.
C16_Witness ==
    /\ merge_calls = 1
    /\ \E i \in DirectiveLines(ini_original) :
         /\ InvertedSpan(ini_original[i])
         /\ Find(ini_original[i], <<"(">>) < RFind(ini_original[i], <<")">>)
    /\ merge_result.status = "error"
    /\ merge_result.message =
         "Error reading settings file, settings_string_end is less than settings_string_start"
    /\ ini_file = ini_original

\* C17 (as claimed): an update whose value holds an odd number of double
\* quotes after the quoting rule is applied is rejected with an error and
\* nothing is written; and no successful merge writes a directive line
\* with an odd number of double quotes.
C17_UnbalancedQuoteRejected ==
    [][ MergeCall
        => /\ ( \E n \in 1..Len(settings_to_change) :
                  CountQuotes(
                    quote_value_if_needed(settings_to_change[n][2])) % 2 = 1 )
                => /\ merge_result'.status = "error"
                   /\ ini_file' = ini_file
           /\ ( merge_result'.status = "success"
                  /\ WellFormedDocument(ini_file) )
                => \A i \in DirectiveLines(ini_file') :
                     CountQuotes(ini_file'[i]) % 2 = 0 ]_vars

\* The keys of a directive line, in the order of its entries.
KeysSeq(line) ==
    [ j \in 1..Len(EntriesOf(line)) |-> KeyOf(EntriesOf(line)[j]) ]
Distinct(seq) ==
    \A a, b \in 1..Len(seq) : a # b => seq[a] # seq[b]

\* The tokens of the updates of a dict whose key is not among keys, in the
\* dict's order, each value quoted where the quoting rule asks for it.
RECURSIVE UnmatchedTokens(_, _)
UnmatchedTokens(dict, keys) ==
    IF dict = <<>> THEN <<>>
    ELSE LET first == Head(dict)
             rest == UnmatchedTokens(Tail(dict), keys)
         IN  IF first[1] \in keys THEN rest
             ELSE <<first[1] \o <<"=">>
                      \o quote_value_if_needed(first[2])>> \o rest

\* C28: after a successful merge, the entries written to the directive line
\* are the existing entries, one for one, followed by one key=value token
\* for each update whose key matches no existing entry, in the order of the
\* update dict and each exactly once; an update whose key matches an
\* existing entry is not appended.
C28_UnmatchedUpdatesAppended ==
    [][ ( MergeCall /\ merge_result'.status = "success" )
        => \A i \in DirectiveLines(ini_file) :
             LET old == EntriesOf(ini_file[i])
                 new == written_settings'
             IN  /\ Len(new) >= Len(old)
                 /\ \A j \in 1..Len(old) : KeyOf(new[j]) = KeyOf(old[j])
                 /\ SubSeq(new, Len(old) + 1, Len(new))
                      = UnmatchedTokens(settings_to_change', KeysOf(ini_file[i]))
                 /\ SettingsString(ini_file'[i]) = Join(new, <<",">>) ]_vars

\* A merge of an update of A, C and RCONEnabled into a line that holds A:
\* RCONEnabled, C and PublicIP were appended in that order, A was not.
C28_Witness ==
    /\ merge_calls = 1
    /\ merge_result.status = "success"
    /\ KeyA \in DictKeys(settings_to_change)
    /\ \E i \in DirectiveLines(ini_original) :
         LET n == Len(EntriesOf(ini_original[i]))
         IN  /\ KeyA \in KeysOf(ini_original[i])
             /\ Len(written_settings) = n + 3
             /\ KeyOf(written_settings[n + 1]) = RCONEnabled
             /\ KeyOf(written_settings[n + 2]) = KeyC
             /\ KeyOf(written_settings[n + 3]) = PublicIP

\* C29: after a successful update_palworld_settings_ini the settings file
\* has as many lines as before, and every line that does not begin with
\* OptionSettings= is byte-identical and at the same position.
C29_OtherLinesUnchanged ==
    [][ ( MergeCall /\ merge_result'.status = "success" )
        => /\ Len(ini_file') = Len(ini_file)
           /\ \A i \in 1..Len(ini_file) :
                ~StartsWith(ini_file[i], OptionSettingsMarker)
                  => ini_file'[i] = ini_file[i] ]_vars

\* A successful merge of a file with a line before and a line after the
\* directive line: the directive line was rewritten, the two were kept.
C29_Witness ==
    /\ merge_calls = 1
    /\ merge_result.status = "success"
    /\ Len(ini_original) = 3
    /\ ini_file[1] = HeaderLine
    /\ ini_file[3] = HeaderLine
    /\ ini_file[2] # ini_original[2]

\* C30 (as claimed): if the keys of the directive line are pairwise distinct
\* before update_palworld_settings_ini, then for every update set the keys
\* of the merged directive line are pairwise distinct.
C30_KeysStayDistinct ==
    [][ ( /\ MergeCall
          /\ merge_result'.status = "success"
          /\ WellFormedDocument(ini_file)
          /\ \A i \in DirectiveLines(ini_file) :
               Distinct(KeysSeq(ini_file[i])) )
        => \A i \in DirectiveLines(ini_file') :
             Distinct(KeysSeq(ini_file'[i])) ]_vars

\* The document a call of update_palworld_settings_ini writes when it is
\* not disturbed.
MergedDocument ==
    ModifyLines(file_to_lines(ini_file).lines, 1,
                NormaliseUpdates(settings_to_change, public_ip)).lines

\* C25 (as claimed): if the write-back of update_palworld_settings_ini is
\* interrupted at any point, the settings file holds either the complete
\* previous document or the complete merged document, never an empty or
\* partially written one.
C25_InterruptedWriteKeepsDocument ==
    [][ ( merge_calls' = merge_calls + 1
          /\ merge_result'.status = "interrupted" )
        => ini_file' \in {ini_file, MergedDocument} ]_vars


(***************************************************************************)
(* Claims about the process lifecycle.                                     *)
(***************************************************************************)
\* C6: once terminate_process_by_pid has been called and has succeeded,
\* expected_to_be_running is false, so that an absence check_server_running
\* reports afterwards is never an absence with expected_to_be_running true;
\* and when no stop succeeded and the launched process is gone, the absence
\* is reported with expected_to_be_running true.
C6_StopClearsExpectation ==
    /\ stop_succeeded => ~expected_to_be_running
    /\ (stop_succeeded /\ ret.op = "check_server_running" /\ ~ret.value)
          => ~expected_to_be_running
    /\ (/\ ~stop_succeeded
        /\ ret.op = "check_server_running"
        /\ ~ret.value
        /\ server_process # None
        /\ processes[server_process] = "gone")
          => expected_to_be_running

\* C7: the first CPU sample after a handle reset or a (re)start of the server
\* reports a usage of 0, and a baseline read from an earlier process is never
\* used to compute the usage of the process located now.
C7_FirstSampleIsZero ==
    /\ ret.sample = "first" => ret.cpu_usage = 0
    /\ (ret.sample # "none" /\ ret.baseline_of # None)
          => ret.baseline_of = ret.sampled_pid

\* C8: a call of identify_process_by_name that finds no process has issued
\* at most 5 queries of the process table when expected_to_be_running was
\* true, and at most 1 when it was false.
C8_RetryBound ==
    ret.identified.outcome = "not_found" =>
        ret.identified.queries <= (IF ret.identified.expected THEN 5 ELSE 1)

\* C9 as claimed: when identify_process_by_name has used up its retries
\* without finding the process, the status of the result it returns is not
\* the error status.
C9_NotFoundIsNotError ==
    ret.identified.outcome = "not_found" =>
        ret.identified.result.status # "error"

\* C9 as amended: when identify_process_by_name has used up its retries
\* without finding the process, it returns, with the handle's pid None, a
\* result whose status is "error" and whose value is "Failed to find
\* process".
C9_NotFoundIsErrorResult ==
    ret.identified.outcome = "not_found" =>
        /\ ret.identified.result =
               [status |-> "error", value |-> "Failed to find process"]
        /\ pid = None
        /\ pc = "idle"

C9_Witness ==
    /\ ret.op = "identify_process_by_name"
    /\ ret.identified.outcome = "not_found"
    /\ ret.status = "error"
    /\ ret.identified.queries > 1

\* A step in which a call of run_server begins: it refuses at once, or it
\* goes on to launch and to locate the process.
RunServerCalled ==
    /\ pc = "idle"
    /\ \/ caller' = "run_server"
       \/ pc' = "idle" /\ ret'.op = "run_server" /\ ret' # ret

\* C10: run_server called while the running flag is true returns an error,
\* launches no process and leaves pid, running, expected_to_be_running and
\* every stored launch option as they were.
C10_RunServerRefusesWhileRunning ==
    [][ (RunServerCalled /\ running) =>
            /\ ret'.status = "error"
            /\ pc' = "idle"
            /\ UNCHANGED <<processes, server_process>>
            /\ UNCHANGED <<pid, running, expected_to_be_running>>
            /\ UNCHANGED <<bot_options, launch_options, db_launcher_options>>
      ]_vars

C10_Witness ==
    /\ ret.op = "run_server"
    /\ ret.message = "Server is already running"
    /\ running
    /\ pid # None
    /\ launch_options # NoOptions


\* A step in which check_server_running returns.
CheckReturns ==
    /\ pc = "check" \/ (pc = "idle" /\ pid # None)
    /\ pc' = "idle"
    /\ processes' = processes
    /\ ret'.op = "check_server_running"

\* C19 (as claimed): when a monitoring sample fails to read the process
\* statistics because the process vanished, check_server_running reports
\* not running with zero usage and not an error, and on return the handle is
\* reset: pid is None, running is false and the CPU baseline is cleared, on
\* every platform branch.
C19_VanishedResetsHandle ==
    [][ ( CheckReturns /\ ret'.sample = "vanished" )
        => /\ ret'.status = "success"
           /\ ret'.value = FALSE
           /\ ret'.cpu_usage = 0
           /\ pid' = None
           /\ running' = FALSE
           /\ last_cpu_check' = None
           /\ last_cpu_time' = None ]_vars

\* A step in which identify_process_by_name returns, to its caller or to
\* check_server_running.
IdentifyReturns == pc = "identify" /\ pc' # "identify"

\* C20 (as claimed): whenever identify_process_by_name returns without
\* having found the process, the handle has running = false and pid = None,
\* on every platform branch and whatever the value of running before the
\* call; and check_server_running takes no sample after a call of the
\* locator that did not find the process.
C20_NotFoundClearsRunning ==
    [][ /\ ( IdentifyReturns /\ pid' = None )
            => running' = FALSE
        /\ ( CheckReturns /\ ret'.identified.outcome = "not_found" )
            => /\ ret'.sampled_pid = None
               /\ ret'.value = FALSE ]_vars


\* C21 (as claimed): with expected_to_be_running true and no matching
\* process at any time, identify_process_by_name performs at least five
\* 1-second sleeps before it returns.
C21_FiveSleepsBeforeGivingUp ==
    ( ret.identified.outcome = "not_found" /\ ret.identified.expected )
      => ret.identified.sleeps >= 5

C21_Witness ==
    /\ ret.op = "identify_process_by_name"
    /\ ret.identified.outcome = "not_found"
    /\ ret.identified.expected
    /\ ret.identified.sleeps = 5
    /\ ret.message = "Failed to find process"

\* C22 (as claimed): one call of check_server_running issues at most one
\* query per measured quantity, never sleeps and never retries: it enters no
\* retry loop, whether or not a pid is stored when it starts.
C22_SampleNeverWaits ==
    ret.op = "check_server_running"
      => /\ ret.identified.sleeps = 0
         /\ ret.identified.queries <= 1

\* C23: every call of identify_process_by_name terminates: the wait loop
\* never runs with more attempts counted than the ceiling, and whatever the
\* queries answer (a failure, nothing, an empty match) the call leaves the
\* loop.
C23_IdentifyTerminates ==
    /\ [](pc = "identify" => attempts <= max_attempts)
    /\ (pc = "identify") ~> (pc # "identify")

C23_Witness ==
    /\ ret.op = "identify_process_by_name"
    /\ ret.identified.outcome = "not_found"
    /\ ~ret.identified.expected
    /\ ret.identified.queries = max_attempts_unexpected + 1
    /\ ret.identified.result = FailedToFind(EmptyResult)
    /\ pc = "idle"

\* C24 (as claimed): terminate_process_by_pid sets running to false and
\* clears the stored pid only after a lookup has confirmed that the process
\* is gone, so after a successful stop the handle never holds the id of the
\* terminated process.
C24_StoppedHandleHoldsNoPid ==
    ( ret.op = "terminate_process_by_pid" /\ ret.value )
      => /\ ~running
         /\ pid = None


\* A step of identify_process_by_name or of check_server_running: a step of
\* a call one of them made, or a call of check_server_running that returns
\* at once.
LocatorOrSamplerStep ==
    \/ caller \in {"identify_process_by_name", "check_server_running"}
    \/ caller' \in {"identify_process_by_name", "check_server_running"}
    \/ /\ pc = "idle"
       /\ pc' = "idle"
       /\ pid # None
       /\ processes' = processes
       /\ ret'.op = "check_server_running"

\* C26 (as claimed): no call of identify_process_by_name or
\* check_server_running modifies expected_to_be_running, including when the
\* process is found absent, in the palworld_admin/servermanager copy and in
\* the palworld_admin/servermanager/local copy.
C26_LocatorAndSamplerKeepFlag ==
    [][ LocatorOrSamplerStep
        => expected_to_be_running' = expected_to_be_running ]_vars


\* A step in which run_server returns after its call of
\* identify_process_by_name.
RunServerReturns == caller = "run_server" /\ pc = "identify" /\ pc' = "idle"

C36_FailedStartRestoresHandle ==
    ( /\ ret.op = "run_server"
      /\ ret.message = "Error starting server"
      /\ Cardinality(Launched) = 1 )
      => /\ ~running
         /\ pid = None
         /\ ~expected_to_be_running

\* C37 (as claimed): between calls of run_server, check_server_running,
\* identify_process_by_name and terminate_process_by_pid, running is true
\* if and only if a pid is stored; in particular run_server returns success
\* only with running true and a pid stored.
C37_RunningIffPidStored ==
    pc = "idle"
      => /\ running <=> pid # None
         /\ ( ret.op = "run_server" /\ ret.status = "success" )
              => running /\ pid # None

\* C38 (as claimed): the CPU usage reported by get_cpu_time_by_pid is never
\* negative, in every sequence of samples, restarts and handle resets.
C38_CpuUsageNotNegative ==
    ret.op = "check_server_running" => ret.cpu_usage >= 0


\* The text of v without one enclosing pair of double quotes.
WithoutEnclosingPair(v) ==
    IF Len(v) >= 2 /\ v[1] = DQ /\ v[Len(v)] = DQ
    THEN SubSeq(v, 2, Len(v) - 1)
    ELSE v

\* No line but the directive line holds a parenthesis.
ParenthesesOnlyInDirective(file) ==
    \A i \in (1..Len(file)) \ DirectiveLines(file) :
      \A j \in 1..Len(file[i]) : file[i][j] \notin {"(", ")"}

LocalAddresses == { <<>>, <<"1", "0", ".", "1">> }

\* C39 (as claimed): for a settings document whose directive line is the
\* only text containing parentheses, after a successful
\* update_palworld_settings_ini with update set U, read_server_settings
\* returns, for every key k of U whose value holds no double quote other
\* than an optional enclosing pair, the value U[k] with one enclosing pair
\* of double quotes removed.
C39_WriteReadRoundTrip ==
    ( /\ merge_calls = 1
      /\ merge_result.status = "success"
      /\ Cardinality(DirectiveLines(ini_original)) = 1
      /\ ParenthesesOnlyInDirective(ini_original) )
      => \A local_ip \in LocalAddresses :
           LET read == read_server_settings(ini_file, local_ip).settings
           IN  \A k \in DictKeys(settings_to_change) :
                 PlainOrEnclosed(DictGet(settings_to_change, k))
                   => /\ k \in DictKeys(read)
                      /\ DictGet(read, k) =
                           WithoutEnclosingPair(DictGet(settings_to_change, k))

(***************************************************************************)
(* Claims about first_run.                                                 *)
(***************************************************************************)
\* The first step of the first_run call that failed, "none" if none did.
FirstFailure ==
    IF first_run_call.start # "success" THEN "start"
    ELSE IF ~first_run_call.terminated THEN "terminate"
    ELSE IF first_run_call.copied # "success" THEN "copy"
    ELSE IF first_run_call.rcon_enabled # "success" THEN "merge"
    ELSE "none"

\* The step an error message of first_run names.
StepNamed(message) ==
    CASE message \in {"Error starting server", "Server is already running"}
           -> "start"
      [] message = "Error terminating server" -> "terminate"
      [] message = "Error copying default settings to the server" -> "copy"
      [] message = "Error enabling RCON on the server" -> "merge"
      [] OTHER -> "none"

\* The steps of first_run up to and including a given one.
StepsUpTo(step) ==
    CASE step = "start" -> <<"start">>
      [] step = "terminate" -> <<"start", "settle", "terminate">>
      [] step = "copy" -> <<"start", "settle", "terminate", "copy">>
      [] OTHER -> <<"start", "settle", "terminate", "copy", "merge">>

\* C12 (as claimed): first_run aborts on the first failing step and
\* surfaces that failure: if the start step (run_server) fails, no later
\* step (settle wait, terminate, default-config copy, settings merge) is
\* executed and the returned error names the start step; likewise for a
\* failure of each later step.
C12_FirstRunAbortsOnFirstFailure ==
    ( first_run_call.at = "done" /\ FirstFailure # "none" )
      => /\ first_run_call.steps = StepsUpTo(FirstFailure)
         /\ first_run_call.result.status = "error"
         /\ StepNamed(first_run_call.result.message) = FirstFailure


\* The steps of first_run in the order of the code.
FirstRunSteps == <<"start", "settle", "terminate", "copy", "merge">>

\* C32: first_run copies the default configuration over the settings file
\* only after the termination step returned success, and runs the settings
\* merge only after the copy returned success; when first_run returns
\* success, running and expected_to_be_running are both false.
C32_FirstRunStepOrder ==
    /\ first_run_call.steps =
         SubSeq(FirstRunSteps, 1, Len(first_run_call.steps))
    /\ "copy" \in Range(first_run_call.steps) => first_run_call.terminated
    /\ "merge" \in Range(first_run_call.steps)
         => /\ first_run_call.terminated
            /\ first_run_call.copied = "success"
    /\ ( first_run_call.at = "done"
         /\ first_run_call.result.status = "success" )
         => /\ ~running
            /\ ~expected_to_be_running

\* first_run has returned success: every step ran and the merged settings
\* are in the file.
C32_Witness ==
    /\ first_run_call.at = "done"
    /\ first_run_call.result.status = "success"
    /\ first_run_call.steps = FirstRunSteps
    /\ merge_result.status = "success"
    /\ ini_file # DefaultSettings
    /\ ~running
    /\ ~expected_to_be_running


(***************************************************************************)
(* Claims about install_server.                                            *)
(***************************************************************************)
\* The steps of install_server that returned an error.
FailedInstallSteps ==
    { step \in {"steamcmd", "palserver", "first_run"} :
        install_call[step] = "error" }

\* C33 (as claimed): install_server stops at the first failing step: once
\* an installation step has returned an error no later step is executed,
\* it never returns status success when one of its steps returned an error,
\* and every result it returns carries a status field.
C33_InstallStopsAtFirstFailure ==
    install_call.at = "done"
      => /\ \A i \in 1..Len(install_call.steps) :
              install_call.steps[i] \in FailedInstallSteps
                => i = Len(install_call.steps)
         /\ FailedInstallSteps # {} => install_call.status # "success"
         /\ install_call.status # "missing"


(***************************************************************************)
(* Claims about overlapping lifecycle calls.                               *)
(***************************************************************************)
\* Thread t begins a call of run_server or terminate_process_by_pid.
Begins(t) == threads[t].pc = "idle" /\ threads'[t] # threads[t]

\* The call thread t has begun is refused: it has returned an error and has
\* neither launched nor stopped a process.
Refused(t) ==
    /\ threads'[t].pc = "idle"
    /\ threads'[t].ret.status = "error"
    /\ processes' = processes

\* C11 (as claimed): if a second run_server or terminate_process_by_pid
\* call begins while a run_server call is still in flight (process
\* launched, identify_process_by_name not yet returned), the second call is
\* refused; in no interleaving of two run_server calls are two server
\* processes launched.
C11_OverlappingCallsRefused ==
    [][ /\ \A t \in Threads :
             ( Begins(t) /\ OthersInFlight(t) ) => Refused(t)
        /\ \A t \in Threads :
             ( Begins(t) /\ OthersInFlight(t)
                 /\ threads'[t].op = "run_server" )
               => Cardinality(Launched') = Cardinality(Launched) ]_vars

=============================================================================
